---- MODULE Spec2Model ----
(***************************************************************************)
(* A model of the Lox tree-walking interpreter: the                        *)
(* scanner (src/src/scanner.rs), the recursive-descent parser              *)
(* (src/src/parser.rs), the environment chain                              *)
(* (src/src/environment.rs), the evaluator (src/src/interpreter.rs) and    *)
(* the callables (src/src/callable.rs), driven by the prompt loop of       *)
(* src/src/lox.rs, which runs one source text after another on the same    *)
(* Interpreter.                                                            *)
(*                                                                         *)
(* Every Rust function is one operator of the same name.  A function that  *)
(* takes &mut self takes the interpreter state `st` and returns            *)
(* [st |-> the state after, r |-> its Result].  The code that follows a    *)
(* `?` is an operator of its own, named after the function and the value   *)
(* the `?` unwraps, which takes the Result and returns its Err at once.    *)
(***************************************************************************)
EXTENDS Integers, Sequences, FiniteSets, TLC

VARIABLES
    envs,         \* the heap of environments (Rc<RefCell<Environment>>)
    environment,  \* Interpreter.environment: the current environment
    input,        \* the source text of the latest run
    out,          \* the lines the latest run printed
    last,         \* the Result of the latest run
    scanner,      \* the Scanner of a scan of its own
    scanned       \* the Result of that scan, None while it runs

vars == <<envs, environment, input, out, last, scanner, scanned>>

(***************************************************************************)
(* Bounds of the model.                                                    *)
(***************************************************************************)
\* Nesting depth of user-function calls plus loop iterations one run may use.
MaxFuel == 6
\* Largest numerator of a Number the model follows.
MaxNum == 12
\* Largest denominator (a power of two: such an f32 is exact) the model follows.
MaxDen == 4

(***************************************************************************)
(* token.rs: Literal and Token.                                            *)
(* A Number is an f32; the model keeps it as an exact fraction num/den     *)
(* (den > 0) in lowest terms, with the negative zero of f32 as             *)
(* num = 0, neg = TRUE.  The values of f32 that are not finite have        *)
(* den = 0: the infinities with num = 1 and num = -1, and NaN with num = 0.*)
(***************************************************************************)
Abs(n) == IF n < 0 THEN -n ELSE n

RECURSIVE Gcd(_, _)
Gcd(a, b) == IF b = 0 THEN a ELSE Gcd(b, a % b)

LNull == [kind |-> "Null"]
LBool(b) == [kind |-> "Bool", b |-> b]
LString(s) == [kind |-> "String", str |-> s]
LFunc(f) == [kind |-> "Func", func |-> f]
LNativeFunc(nf) == [kind |-> "NativeFunc", nf |-> nf]

\* The f32 of value n/d (d # 0); a zero takes the sign `negzero`.
Frac(n, d, negzero) ==
    LET s == IF d < 0 THEN -1 ELSE 1
        g == Gcd(Abs(n), Abs(d))
    IN  [kind |-> "Number", num |-> (s * n) \div g, den |-> (s * d) \div g,
         neg |-> IF n = 0 THEN negzero ELSE (s * n < 0)]

LNumber(n) == Frac(n, 1, FALSE)

\* f32::INFINITY, f32::NEG_INFINITY and f32::NAN
Infinity(negative) ==
    [kind |-> "Number", num |-> IF negative THEN -1 ELSE 1, den |-> 0,
     neg |-> negative]
NaN == [kind |-> "Number", num |-> 0, den |-> 0, neg |-> FALSE]
IsNaN(x) == x.den = 0 /\ x.num = 0
IsInf(x) == x.den = 0 /\ x.num # 0

\* Whether the model follows this number (otherwise the run is left out).
IsPow2(d) == d \in {1, 2, 4, 8, 16, 32, 64}
InRange(x) ==
    x.den = 0 \/ (Abs(x.num) <= MaxNum /\ x.den <= MaxDen /\ IsPow2(x.den))

\* Literal::is_truthy
is_truthy(l) ==
    CASE l.kind = "Bool" -> l.b
      [] l.kind = "Null" -> FALSE
      [] OTHER -> TRUE

\* Token::new
Token(ttype, lexeme, literal, line) ==
    [ttype |-> ttype, lexeme |-> lexeme, literal |-> literal, line |-> line]

(***************************************************************************)
(* error.rs: RuntimeBreak, and the Result values of the evaluator.         *)
(***************************************************************************)
Ok(v) == [tag |-> "Ok", value |-> v]
OkUnit == [tag |-> "Ok", value |-> LNull]
RuntimeError(token, message) == [token |-> token, message |-> message]
RuntimeErrorBreak(re) == [tag |-> "RuntimeErrorBreak", re |-> re]
ReturnBreak(value) == [tag |-> "ReturnBreak", value |-> value]
\* Not a Result of the program: the run left the bounds of the model (it
\* loops or recurses deeper than MaxFuel, or computes a Number out of range).
Unmodelled == [tag |-> "Unmodelled"]

IsOk(r) == r.tag = "Ok"

(***************************************************************************)
(* environment.rs.  The heap of Rc<RefCell<Environment>> is the sequence   *)
(* envs; a reference is an index into it and None is 0.                    *)
(***************************************************************************)
NoEnv == 0

EmptyValues == [n \in {} |-> LNull]

\* HashMap::insert
Insert(values, name, value) ==
    [n \in (DOMAIN values) \cup {name} |-> IF n = name THEN value ELSE values[n]]

\* Environment::new
EnvironmentNew(enclosing) == [enclosing |-> enclosing, values |-> EmptyValues]

\* A faulty define: the binding goes to the enclosing environment, if any.
define_outer(h, e, name, value) ==
    [h EXCEPT ![IF h[e].enclosing = NoEnv THEN e ELSE h[e].enclosing].values =
                  Insert(@, name, value)]

\* Environment::define on the environment e of heap h: the heap after.
define(h, e, name, value) ==
    [h EXCEPT ![e].values = Insert(@, name, value)]

\* A faulty assign: a name the current environment does not bind is bound there.
assign_current(h, e, name, value) ==
    [h |-> [h EXCEPT ![e].values = Insert(@, name.lexeme, value)], r |-> OkUnit]

\* Environment::assign: [h |-> the heap after, r |-> Ok(()) or the error].
RECURSIVE assign(_, _, _, _)
assign(h, e, name, value) ==
    IF name.lexeme \in DOMAIN h[e].values
    THEN [h |-> [h EXCEPT ![e].values = Insert(@, name.lexeme, value)], r |-> OkUnit]
    ELSE IF h[e].enclosing # NoEnv
    THEN assign(h, h[e].enclosing, name, value)
    ELSE [h |-> h,
          r |-> RuntimeErrorBreak(
                    RuntimeError(name, "Undefined variable '" \o name.lexeme \o "'."))]

\* A faulty get: only the current environment is searched.
get_current(h, e, name) ==
    IF name.lexeme \in DOMAIN h[e].values
    THEN Ok(h[e].values[name.lexeme])
    ELSE [tag |-> "Err",
          re |-> RuntimeError(name, "Undefined variable '" \o name.lexeme \o "'.")]

\* Environment::get: Ok(value) or Err(RuntimeError), the error as [tag |-> "Err"].
RECURSIVE get(_, _, _)
get(h, e, name) ==
    IF name.lexeme \in DOMAIN h[e].values
    THEN Ok(h[e].values[name.lexeme])
    ELSE IF h[e].enclosing # NoEnv
    THEN get(h, h[e].enclosing, name)
    ELSE [tag |-> "Err",
          re |-> RuntimeError(name, "Undefined variable '" \o name.lexeme \o "'.")]

(***************************************************************************)
(* f32 arithmetic on the fractions the model follows (all exact in f32).   *)
(***************************************************************************)
\* A faulty test for zero: the negative zero is not zero.
IsZero_positive(x) == x.num = 0 /\ x.den # 0 /\ ~x.neg

IsZero(x) == x.num = 0 /\ x.den # 0

\* -x
NumNeg(x) ==
    CASE IsNaN(x) -> NaN
      [] IsInf(x) -> Infinity(~x.neg)
      [] OTHER -> Frac(-x.num, x.den, ~x.neg)

\* x + y: a zero sum is -0 only when both operands are -0, and the sum of
\* the two infinities of opposite sign is NaN.
NumAdd(x, y) ==
    CASE IsNaN(x) \/ IsNaN(y) -> NaN
      [] IsInf(x) /\ IsInf(y) -> IF x.neg = y.neg THEN x ELSE NaN
      [] IsInf(x) -> x
      [] IsInf(y) -> y
      [] OTHER -> Frac(x.num * y.den + y.num * x.den, x.den * y.den,
                       IsZero(x) /\ IsZero(y) /\ x.neg /\ y.neg)

\* x - y
NumSub(x, y) == NumAdd(x, NumNeg(y))

\* x * y: a zero product takes the product of the signs, and zero times an
\* infinity is NaN.
NumMul(x, y) ==
    CASE IsNaN(x) \/ IsNaN(y) -> NaN
      [] IsInf(x) \/ IsInf(y) ->
           IF IsZero(x) \/ IsZero(y) THEN NaN ELSE Infinity(x.neg # y.neg)
      [] OTHER -> Frac(x.num * y.num, x.den * y.den, x.neg # y.neg)

\* x / y for y # 0: an infinity by an infinity is NaN, a finite number by an
\* infinity is a zero.
NumDiv(x, y) ==
    CASE IsNaN(x) \/ IsNaN(y) -> NaN
      [] IsInf(x) /\ IsInf(y) -> NaN
      [] IsInf(x) -> Infinity(x.neg # y.neg)
      [] IsInf(y) -> Frac(0, 1, x.neg # y.neg)
      [] OTHER -> Frac(x.num * y.den, x.den * y.num, x.neg # y.neg)

\* x < y: false when either is NaN.
NumLess(x, y) ==
    CASE IsNaN(x) \/ IsNaN(y) -> FALSE
      [] IsInf(x) /\ IsInf(y) -> x.neg /\ ~y.neg
      [] OTHER -> x.num * y.den < y.num * x.den

\* f32's ==: the two zeros are equal, and NaN equals nothing.
NumEq(x, y) == ~IsNaN(x) /\ ~IsNaN(y) /\ x.num = y.num /\ x.den = y.den

\* x <= y
NumLessEq(x, y) == NumLess(x, y) \/ NumEq(x, y)

(***************************************************************************)
(* f32::to_string (Display): an integral value has no fractional part, a   *)
(* negative zero prints as -0, and a fraction of a power of two prints its *)
(* exact decimal expansion; the others print as inf, -inf and NaN.         *)
(***************************************************************************)
Digit(d) == <<"0", "1", "2", "3", "4", "5", "6", "7", "8", "9">>[d + 1]

RECURSIVE NatToString(_)
NatToString(n) ==
    IF n < 10 THEN Digit(n) ELSE NatToString(n \div 10) \o Digit(n % 10)

\* The decimal digits of r/den (0 <= r < den, den a power of two).
RECURSIVE FracDigits(_, _)
FracDigits(r, den) ==
    IF r = 0 THEN ""
    ELSE Digit((r * 10) \div den) \o FracDigits((r * 10) % den, den)

NumToString(x) ==
    LET a == Abs(x.num)
    IN  CASE IsNaN(x) -> "NaN"
          [] IsInf(x) -> IF x.neg THEN "-inf" ELSE "inf"
          [] OTHER ->
               (IF x.neg THEN "-" ELSE "")
               \o NatToString(a \div x.den)
               \o (IF a % x.den = 0 THEN ""
                   ELSE "." \o FracDigits(a % x.den, x.den))

(***************************************************************************)
(* parser.rs: the syntax tree.                                             *)
(***************************************************************************)
LitExpr(l) == [node |-> "LitExpr", lit |-> l]
VarExpr(name) == [node |-> "VarExpr", name |-> name]
AssignExpr(name, value) == [node |-> "AssignExpr", name |-> name, value |-> value]
BinaryExpr(left, operator, right) ==
    [node |-> "BinaryExpr", left |-> left, operator |-> operator, right |-> right]
UnaryExpr(operator, right) ==
    [node |-> "UnaryExpr", operator |-> operator, right |-> right]
LogicExpr(left, operator, right) ==
    [node |-> "LogicExpr", left |-> left, operator |-> operator, right |-> right]
\* arguments: Option<Vec<Expr>>, None as [some |-> FALSE].
NoArguments == [some |-> FALSE]
SomeArguments(args) == [some |-> TRUE, args |-> args]
CallExpr(callee, paren, arguments) ==
    [node |-> "CallExpr", callee |-> callee, paren |-> paren, arguments |-> arguments]
GroupingExpr(expression) == [node |-> "GroupingExpr", expression |-> expression]

ExprStmt(expr) == [node |-> "ExprStmt", expr |-> expr]
PrintStmt(expr) == [node |-> "PrintStmt", expr |-> expr]
IfStmt(condition, then_branch, else_branch) ==
    [node |-> "IfStmt", condition |-> condition, then_branch |-> then_branch,
     else_branch |-> else_branch]
\* Stmt::ForStmt, which execute ignores.
ForStmt(initialiser, condition, increment, body) ==
    [node |-> "ForStmt", initialiser |-> initialiser, condition |-> condition,
     increment |-> increment, body |-> body]
WhileStmt(condition, body) ==
    [node |-> "WhileStmt", condition |-> condition, body |-> body]
VarDeclStmt(name, initialiser) ==
    [node |-> "VarDeclStmt", name |-> name, initialiser |-> initialiser]
\* FuncDecl; its body is a sequence of statements.
FuncDecl(name, params, body) ==
    [node |-> "FuncDeclStmt", name |-> name, params |-> params, stmts |-> body]
ReturnStmt(keyword, value) ==
    [node |-> "ReturnStmt", keyword |-> keyword, value |-> value]
BlockStmt(statements) == [node |-> "BlockStmt", statements |-> statements]

\* Display of Function: write!(f, "<fn {}>", self.declaration.name), and the
\* Display of the Token that is the name.
TokenToString(t) ==
    "Type: " \o t.ttype \o ", Value: " \o t.lexeme \o ", Literal: "
    \o (IF t.literal.kind = "Null" THEN "Null" ELSE "?")

\* Literal::as_string
as_string(l) ==
    CASE l.kind = "String" -> l.str
      [] l.kind = "Number" -> NumToString(l)
      [] l.kind = "Bool" -> IF l.b THEN "true" ELSE "false"
      [] l.kind = "Func" -> "<fn " \o TokenToString(l.func.name) \o ">"
      [] l.kind = "NativeFunc" -> "<native fn>"
      [] l.kind = "Null" -> "nil"

(***************************************************************************)
(* interpreter.rs.  The state of an Interpreter while it runs:             *)
(*   envs         the heap of environments,                                *)
(*   environment  Interpreter.environment, the current environment,        *)
(*   out          the lines written by print statements,                   *)
(*   clock        the readings the coming calls of clock() will return.    *)
(* Interpreter.globals is never reassigned: it is the first environment.   *)
(***************************************************************************)
globals == 1

\* The environments of the chain that starts at e.
RECURSIVE Chain(_, _)
Chain(h, e) == IF e = NoEnv THEN {} ELSE {e} \cup Chain(h, h[e].enclosing)

\* Rc: the environment env, allocated last, is freed as soon as neither the
\* interpreter nor a live environment refers to it.
Release(st, env) ==
    IF env = Len(st.envs) /\ env \notin (Chain(st.envs, st.environment) \cup {globals})
    THEN [st EXCEPT !.envs = SubSeq(st.envs, 1, env - 1)]
    ELSE st

\* A faulty is_equal: the two values are the same value.
is_equal_same(left, right) == left = right

\* Interpreter::is_equal, with the derived PartialEq of Literal.
is_equal(left, right) ==
    IF left.kind = "Null" /\ right.kind = "Null" THEN TRUE
    ELSE IF left.kind = "Null" THEN FALSE
    ELSE IF left.kind # right.kind THEN FALSE
    ELSE IF left.kind = "Number" THEN NumEq(left, right)
    ELSE left = right

\* A Number result, when the model follows it.
NumResult(x) == IF InRange(x) THEN Ok(x) ELSE Unmodelled

\* A faulty type error: the operation yields nil.
TypeError_nil(operator, message) == Ok(LNull)

TypeError(operator, message) == RuntimeErrorBreak(RuntimeError(operator, message))

\* Interpreter::eval_binary, the match on the two operand values.
binary_match(left, operator, right) ==
    LET op == operator.ttype
        eq(l, r) ==
            CASE op = "EqualEqual" -> Ok(LBool(is_equal(l, r)))
              [] op = "BangEqual" -> Ok(LBool(~is_equal(l, r)))
    IN
    CASE left.kind = "Number" /\ right.kind = "Number" ->
           CASE op = "Minus" -> NumResult(NumSub(left, right))
             [] op = "Plus" -> NumResult(NumAdd(left, right))
             [] op = "Slash" ->
                  IF ~IsZero(right) THEN NumResult(NumDiv(left, right))
                  ELSE TypeError(operator, "Attempted division by zero")
             [] op = "Star" -> NumResult(NumMul(left, right))
             [] op = "Greater" -> Ok(LBool(NumLess(right, left)))
             [] op = "GreaterEqual" -> Ok(LBool(NumLessEq(right, left)))
             [] op = "Less" -> Ok(LBool(NumLess(left, right)))
             [] op = "LessEqual" -> Ok(LBool(NumLessEq(left, right)))
             [] op \in {"EqualEqual", "BangEqual"} -> eq(left, right)
             [] OTHER -> TypeError(operator, "Invalid operator used with two numbers")
      [] left.kind = "String" /\ right.kind = "String" ->
           CASE op = "Plus" -> Ok(LString(left.str \o right.str))
             [] op \in {"EqualEqual", "BangEqual"} -> eq(left, right)
             [] OTHER -> TypeError(operator, "Invalid operator used with two strings")
      [] left.kind = "String" /\ right.kind = "Number" ->
           CASE op = "Plus" -> Ok(LString(left.str \o NumToString(right)))
             [] op \in {"EqualEqual", "BangEqual"} ->
                  eq(left, LString(NumToString(right)))
             [] OTHER ->
                  TypeError(operator, "Invalid operator used with a string and a number")
      [] left.kind = "Number" /\ right.kind = "String" ->
           CASE op = "Plus" -> Ok(LString(NumToString(left) \o right.str))
             [] op \in {"EqualEqual", "BangEqual"} ->
                  eq(LString(NumToString(left)), right)
             [] OTHER ->
                  TypeError(operator, "Invalid operator used with a number and a string")
      [] OTHER ->
           CASE op \in {"EqualEqual", "BangEqual"} -> eq(left, right)
             [] OTHER ->
                  TypeError(operator, "Operands must be two numbers or two strings.")

\* Interpreter::eval_unary, after the operand is evaluated.
unary_match(operator, right) ==
    IF operator.ttype = "Minus"
    THEN IF right.kind = "Number" THEN Ok(NumNeg(right))
         ELSE TypeError(operator, "Operand must be number")
    ELSE IF operator.ttype = "Bang"
    THEN IF right.kind = "Bool" THEN Ok(LBool(~is_truthy(right)))
         ELSE Ok(LNull)
    ELSE Ok(LNull)

\* A faulty Function::arity: one more than the parameters.
Function_arity_more(f) == Len(f.params) + 1

\* Function::arity and NativeFunction::arity
Function_arity(f) == Len(f.params)
NativeFunction_arity(nf) == 0

\* Function::call, lines 44-49: the parameters bound in the environment env.
RECURSIVE define_params(_, _, _, _, _)
define_params(h, env, params, arguments, i) ==
    IF i > Len(params) THEN h
    ELSE define_params(define(h, env, params[i].lexeme, arguments[i]),
                       env, params, arguments, i + 1)

\* A faulty Function::call: the value of a return is dropped.
call_result_nil(block_result) ==
    [st |-> block_result.st,
     r |-> CASE block_result.r.tag = "RuntimeErrorBreak" -> block_result.r
             [] block_result.r.tag = "Unmodelled" -> Unmodelled
             [] OTHER -> Ok(LNull)]

\* A faulty Function::call: the Result of the body is that of the call.
call_result_body(block_result) == block_result

\* Function::call, lines 53-59: the Result of the call from that of the body.
call_result(block_result) ==
    [st |-> block_result.st,
     r |-> CASE block_result.r.tag = "ReturnBreak" -> Ok(block_result.r.value)
             [] block_result.r.tag = "RuntimeErrorBreak" -> block_result.r
             [] block_result.r.tag = "Unmodelled" -> Unmodelled
             [] OTHER -> Ok(LNull)]

\* A faulty Function::call: the parent is the environment of the call site.
call_parent_current(st) == st.environment

\* Function::call, lines 41-43: the parent of the environment of a call.
call_parent(st) == globals

\* NativeFunction::call: Clock reads the time.
NativeFunction_call(nf, st, arguments) ==
    IF st.clock = <<>> THEN [st |-> st, r |-> Unmodelled]
    ELSE [st |-> [st EXCEPT !.clock = Tail(@)], r |-> Ok(LNumber(Head(st.clock)))]

\* A faulty execute_block: a failed statement leaves the environment of the
\* block current.
block_failed_keeps(st, previous, e) == [st |-> st, r |-> e]

\* execute_block, lines 67-70: a statement of the block failed.
block_failed(st, previous, e) ==
    [st |-> [st EXCEPT !.environment = previous], r |-> e]

\* execute_block, lines 73-74: every statement of the block is done.
block_done(st, previous) ==
    [st |-> [st EXCEPT !.environment = previous], r |-> OkUnit]

\* A faulty eval_logic: only `or` stops at its left operand.
short_circuit_or(operator, left) == operator.ttype = "Or" /\ is_truthy(left)

\* eval_logic, line 119: whether the left value is the value of the expression.
short_circuit(operator, left) ==
    (operator.ttype = "Or" /\ is_truthy(left)) \/ ~is_truthy(left)

\* The sentinel of parser.rs for "no else", "no initialiser", "no value".
NullExpr == LitExpr(LNull)

RECURSIVE evaluate(_, _, _), eval_binary(_, _, _), eval_unary(_, _, _),
          eval_assign(_, _, _), eval_logic(_, _, _), eval_call(_, _, _),
          eval_arguments(_, _, _, _, _), Function_call(_, _, _, _),
          execute(_, _, _), execute_block(_, _, _, _), block_loop(_, _, _, _, _),
          eval_block(_, _, _), eval_if_stmt(_, _, _), eval_while_stmt(_, _, _),
          eval_var_decl_stmt(_, _, _), eval_return_stmt(_, _, _),
          eval_print_stmt(_, _, _)

\* Interpreter::eval_var
eval_var(var, st) ==
    LET g == get(st.envs, st.environment, var.name)
    IN  [st |-> st, r |-> IF g.tag = "Ok" THEN g ELSE RuntimeErrorBreak(g.re)]

\* Interpreter::evaluate
evaluate(expression, st, fuel) ==
    CASE expression.node = "GroupingExpr" -> evaluate(expression.expression, st, fuel)
      [] expression.node = "BinaryExpr" -> eval_binary(expression, st, fuel)
      [] expression.node = "UnaryExpr" -> eval_unary(expression, st, fuel)
      [] expression.node = "VarExpr" -> eval_var(expression, st)
      [] expression.node = "AssignExpr" -> eval_assign(expression, st, fuel)
      [] expression.node = "LogicExpr" -> eval_logic(expression, st, fuel)
      [] expression.node = "CallExpr" -> eval_call(expression, st, fuel)
      [] expression.node = "LitExpr" -> [st |-> st, r |-> Ok(expression.lit)]

\* eval_assign, after `?`: the assignment a of the value, which is the result.
assign_result(value, a) ==
    [st |-> [value.st EXCEPT !.envs = a.h],
     r |-> IF IsOk(a.r) THEN Ok(value.r.value) ELSE a.r]

\* eval_assign, after the value is evaluated.
assign_value(assignment, value) ==
    IF ~IsOk(value.r) THEN value
    ELSE assign_result(value, assign(value.st.envs, value.st.environment,
                                     assignment.name, value.r.value))

\* Interpreter::eval_assign
eval_assign(assignment, st, fuel) ==
    assign_value(assignment, evaluate(assignment.value, st, fuel))

\* eval_logic, after the left operand is evaluated.
logic_left(logic, left, fuel) ==
    IF ~IsOk(left.r) THEN left
    ELSE IF short_circuit(logic.operator, left.r.value) THEN left
    ELSE evaluate(logic.right, left.st, fuel)

\* Interpreter::eval_logic
eval_logic(logic, st, fuel) == logic_left(logic, evaluate(logic.left, st, fuel), fuel)

\* eval_binary, after the right operand is evaluated.
binary_right(b, left, right) ==
    IF ~IsOk(right.r) THEN right
    ELSE [st |-> right.st, r |-> binary_match(left, b.operator, right.r.value)]

\* eval_binary, after the left operand is evaluated.
binary_left(b, left, fuel) ==
    IF ~IsOk(left.r) THEN left
    ELSE binary_right(b, left.r.value, evaluate(b.right, left.st, fuel))

\* Interpreter::eval_binary
eval_binary(b, st, fuel) == binary_left(b, evaluate(b.left, st, fuel), fuel)

\* eval_unary, after the operand is evaluated.
unary_right(u, right) ==
    IF ~IsOk(right.r) THEN right
    ELSE [st |-> right.st, r |-> unary_match(u.operator, right.r.value)]

\* Interpreter::eval_unary
eval_unary(u, st, fuel) == unary_right(u, evaluate(u.right, st, fuel))

\* eval_call, the collect() of the arguments: after the i-th is evaluated.
collect(args, i, acc, a, fuel) ==
    IF ~IsOk(a.r) THEN a
    ELSE eval_arguments(args, i + 1, Append(acc, a.r.value), a.st, fuel)

\* eval_call: args.iter().map(evaluate).collect() stops at the first Err.
\* r is Ok with the sequence of values, or that Err.
eval_arguments(args, i, acc, st, fuel) ==
    IF i > Len(args) THEN [st |-> st, r |-> Ok(acc)]
    ELSE collect(args, i, acc, evaluate(args[i], st, fuel), fuel)

\* eval_call: the Result that is the local `arguments`.
call_arguments(call, st, fuel) ==
    IF call.arguments.some
    THEN eval_arguments(call.arguments.args, 1, <<>>, st, fuel)
    ELSE [st |-> st, r |-> Ok(<<>>)]

\* eval_call: the error of a call with the wrong number of arguments.
arity_error(call, n, args) ==
    RuntimeErrorBreak(RuntimeError(call.paren,
        "Expected " \o NatToString(n) \o " arguments but got "
        \o NatToString(Len(args))))

\* eval_call: the match on the callee c.
call_match(call, c, arguments, fuel) ==
    IF arguments.r.tag = "Unmodelled" THEN arguments
    ELSE
    CASE c.kind = "Func" ->
           IF IsOk(arguments.r)
           THEN IF Function_arity(c.func) # Len(arguments.r.value)
                THEN [st |-> arguments.st,
                      r |-> arity_error(call, Function_arity(c.func),
                                        arguments.r.value)]
                ELSE Function_call(c.func, arguments.st, arguments.r.value, fuel)
           ELSE arguments
      [] c.kind = "NativeFunc" ->
           IF IsOk(arguments.r)
           THEN IF NativeFunction_arity(c.nf) # Len(arguments.r.value)
                THEN [st |-> arguments.st,
                      r |-> arity_error(call, NativeFunction_arity(c.nf),
                                        arguments.r.value)]
                ELSE NativeFunction_call(c.nf, arguments.st, arguments.r.value)
           ELSE arguments
      [] OTHER ->
           [st |-> arguments.st,
            r |-> RuntimeErrorBreak(RuntimeError(call.paren,
                      "Can only call functions and classes"))]

\* eval_call, after the callee is evaluated.
call_callee(call, callee, fuel) ==
    IF ~IsOk(callee.r) THEN callee
    ELSE call_match(call, callee.r.value, call_arguments(call, callee.st, fuel), fuel)

\* Interpreter::eval_call
eval_call(call, st, fuel) == call_callee(call, evaluate(call.callee, st, fuel), fuel)

\* Function::call, lines 41-49: the environment env of the call is created.
call_env(f, st, arguments, env) ==
    [st EXCEPT !.envs = define_params(Append(@, EnvironmentNew(call_parent(st))),
                                      env, f.params, arguments, 1)]

\* Function::call; each call uses one unit of fuel.
Function_call(f, st, arguments, fuel) ==
    IF fuel = 0 THEN [st |-> st, r |-> Unmodelled]
    ELSE call_result(execute_block(f.stmts, Len(st.envs) + 1,
                                   call_env(f, st, arguments, Len(st.envs) + 1),
                                   fuel - 1))

\* Interpreter::eval_func_decl_stmt
eval_func_decl_stmt(func, st) ==
    [st |-> [st EXCEPT !.envs = define(st.envs, st.environment, func.name.lexeme,
                                      LFunc(func))],
     r |-> OkUnit]

\* execute: the value v of an expression statement is dropped.
expr_stmt(v) == IF IsOk(v.r) THEN [st |-> v.st, r |-> OkUnit] ELSE v

\* Interpreter::execute
execute(stmt, st, fuel) ==
    CASE stmt.node = "ExprStmt" -> expr_stmt(evaluate(stmt.expr, st, fuel))
      [] stmt.node = "PrintStmt" -> eval_print_stmt(stmt.expr, st, fuel)
      [] stmt.node = "IfStmt" -> eval_if_stmt(stmt, st, fuel)
      [] stmt.node = "WhileStmt" -> eval_while_stmt(stmt, st, fuel)
      [] stmt.node = "VarDeclStmt" -> eval_var_decl_stmt(stmt, st, fuel)
      [] stmt.node = "FuncDeclStmt" -> eval_func_decl_stmt(stmt, st)
      [] stmt.node = "ReturnStmt" -> eval_return_stmt(stmt, st, fuel)
      [] stmt.node = "BlockStmt" -> eval_block(stmt, st, fuel)
      [] OTHER -> [st |-> st, r |-> OkUnit]

\* execute_block, the loop: after the i-th statement ended with x.
block_step(statements, i, previous, x, fuel) ==
    IF ~IsOk(x.r) THEN block_failed(x.st, previous, x.r)
    ELSE block_loop(statements, i + 1, previous, x.st, fuel)

\* Interpreter::execute_block, the loop over the statements from the i-th.
block_loop(statements, i, previous, st, fuel) ==
    IF i > Len(statements) THEN block_done(st, previous)
    ELSE block_step(statements, i, previous, execute(statements[i], st, fuel), fuel)

\* The end of the scope of the caller's Rc to env.
drop_env(done, env) == [st |-> Release(done.st, env), r |-> done.r]

\* Interpreter::execute_block
execute_block(statements, env, st, fuel) ==
    drop_env(block_loop(statements, 1, st.environment,
                        [st EXCEPT !.environment = env], fuel),
             env)

\* Interpreter::eval_block
eval_block(block, st, fuel) ==
    execute_block(block.statements, Len(st.envs) + 1,
                  [st EXCEPT !.envs = Append(@, EnvironmentNew(st.environment))], fuel)

\* eval_if_stmt, after the condition is evaluated.
if_condition(ifstmt, c, fuel) ==
    IF ~IsOk(c.r) THEN c
    ELSE IF is_truthy(c.r.value) THEN execute(ifstmt.then_branch, c.st, fuel)
    ELSE IF ifstmt.else_branch # ExprStmt(NullExpr)
    THEN execute(ifstmt.else_branch, c.st, fuel)
    ELSE [st |-> c.st, r |-> OkUnit]

\* Interpreter::eval_if_stmt
eval_if_stmt(ifstmt, st, fuel) ==
    if_condition(ifstmt, evaluate(ifstmt.condition, st, fuel), fuel)

\* eval_while_stmt, after the body is executed.
while_body(whilestmt, b, fuel) ==
    IF ~IsOk(b.r) THEN b ELSE eval_while_stmt(whilestmt, b.st, fuel)

\* eval_while_stmt, after the condition is evaluated; each iteration uses one
\* unit of fuel.
while_condition(whilestmt, c, fuel) ==
    IF ~IsOk(c.r) THEN c
    ELSE IF ~is_truthy(c.r.value) THEN [st |-> c.st, r |-> OkUnit]
    ELSE IF fuel = 0 THEN [st |-> c.st, r |-> Unmodelled]
    ELSE while_body(whilestmt, execute(whilestmt.body, c.st, fuel - 1), fuel - 1)

\* Interpreter::eval_while_stmt
eval_while_stmt(whilestmt, st, fuel) ==
    while_condition(whilestmt, evaluate(whilestmt.condition, st, fuel), fuel)

\* eval_var_decl_stmt, after the initialiser is evaluated.
var_value(var, value) ==
    IF ~IsOk(value.r) THEN value
    ELSE [st |-> [value.st EXCEPT !.envs = define(value.st.envs,
                      value.st.environment, var.name.lexeme, value.r.value)],
          r |-> OkUnit]

\* Interpreter::eval_var_decl_stmt
eval_var_decl_stmt(var, st, fuel) ==
    var_value(var, IF var.initialiser # NullExpr
                   THEN evaluate(var.initialiser, st, fuel)
                   ELSE [st |-> st, r |-> Ok(LNull)])

\* eval_return_stmt, after the value is evaluated.
return_value(value) ==
    IF ~IsOk(value.r) THEN value
    ELSE [st |-> value.st, r |-> ReturnBreak(value.r.value)]

\* Interpreter::eval_return_stmt
eval_return_stmt(ret, st, fuel) ==
    return_value(IF ret.value # NullExpr THEN evaluate(ret.value, st, fuel)
                 ELSE [st |-> st, r |-> Ok(LNull)])

\* eval_print_stmt, after the value is evaluated.
print_value(value) ==
    IF ~IsOk(value.r) THEN value
    ELSE [st |-> [value.st EXCEPT !.out = Append(@, as_string(value.r.value))],
          r |-> OkUnit]

\* Interpreter::eval_print_stmt
eval_print_stmt(expr, st, fuel) == print_value(evaluate(expr, st, fuel))

\* interpret, after the i-th statement ended with x.
RECURSIVE interpret(_, _, _, _)
\* A faulty interpret: the statements after a failed statement are executed.
interpret_step_on(stmts, i, x, fuel) == interpret(stmts, i + 1, x.st, fuel)

interpret_step(stmts, i, x, fuel) ==
    IF ~IsOk(x.r) THEN x ELSE interpret(stmts, i + 1, x.st, fuel)

\* Interpreter::interpret, from the i-th statement.
interpret(stmts, i, st, fuel) ==
    IF i > Len(stmts) THEN [st |-> st, r |-> OkUnit]
    ELSE interpret_step(stmts, i, execute(stmts[i], st, fuel), fuel)

\* A faulty Interpreter::new: insert_native_functions is not called.
InterpreterNew_empty ==
    [envs |-> <<[enclosing |-> NoEnv, values |-> EmptyValues]>>,
     environment |-> globals]

\* Interpreter::new with insert_native_functions
InterpreterNew ==
    [envs |-> <<[enclosing |-> NoEnv,
                 values |-> Insert(EmptyValues, "clock", LNativeFunc("Clock"))]>>,
     environment |-> globals]

(***************************************************************************)
(* parser.rs.  A Parser is p = [tokens, current], with current counted     *)
(* from 0 as in the source.  A parsing function returns                    *)
(* POk(the parser after, the node) or PErr(the parser after, the error).    *)
(* The parsing functions call declaration, statement and expression, and  *)
(* the loops of the binary operators call themselves, through Parse:       *)
(* Parse(f, p, x) is the call f(p) or, of a loop, f(p, x).                 *)
(***************************************************************************)
ParseError(token, message) == [token |-> token, message |-> message]
POk(p, value) == [p |-> p, ok |-> TRUE, value |-> value]
PErr(p, e) == [p |-> p, ok |-> FALSE, err |-> e]

\* Parser::new
ParserNew(tokens) == [tokens |-> tokens, current |-> 0]

\* Parser::peek
peek(p) == p.tokens[p.current + 1]

\* Parser::previous
previous(p) == p.tokens[p.current]

\* Parser::is_at_end
is_at_end(p) == peek(p).ttype = "Eof"

\* Parser::check
check(p, ttype) == IF is_at_end(p) THEN FALSE ELSE peek(p).ttype = ttype

\* Parser::advance: the parser after; the token returned is previous of it.
advance(p) == IF ~is_at_end(p) THEN [p EXCEPT !.current = @ + 1] ELSE p

\* Parser::matches
matches(p, ttypes) ==
    IF \E i \in 1..Len(ttypes) : check(p, ttypes[i])
    THEN [p |-> advance(p), b |-> TRUE]
    ELSE [p |-> p, b |-> FALSE]

\* Parser::error
error(p, token, message) == ParseError(token, message)

\* Parser::consume: Ok with the token consumed.
consume(p, ttype, message) ==
    IF check(p, ttype)
    THEN POk(advance(p), previous(advance(p)))
    ELSE PErr(p, error(p, peek(p), message))

\* Parser::synchronise, the loop.
RECURSIVE synchronise_loop(_)
synchronise_loop(p) ==
    IF is_at_end(p) THEN p
    ELSE IF previous(p).ttype = "Semicolon" THEN p
    ELSE IF peek(p).ttype \in {"Class", "Fun", "Var", "For", "If", "While",
                               "Print", "Return"} THEN p
    ELSE synchronise_loop(advance(p))

\* Parser::synchronise
synchronise(p) == synchronise_loop(advance(p))

RECURSIVE Parse(_, _, _),
          arguments_loop(_, _),
          assignment(_),
          block_statements(_, _),
          call_loop(_, _),
          parameters_loop(_, _),
          unary(_)

\* Parser::primary, a grouping, after `)`.
primary_paren(expr, c) ==
    IF c.ok THEN POk(c.p, GroupingExpr(expr.value)) ELSE c

\* Parser::primary, a grouping, after `expr`.
primary_expr(expr) ==
    IF expr.ok
    THEN primary_paren(expr, consume(expr.p, "RightParen", "Expect ) after expression"))
    ELSE expr

\* Parser::primary
primary(p) ==
    CASE matches(p, <<"False">>).b -> POk(advance(p), LitExpr(LBool(FALSE)))
      [] matches(p, <<"True">>).b -> POk(advance(p), LitExpr(LBool(TRUE)))
      [] matches(p, <<"Nil">>).b -> POk(advance(p), LitExpr(LNull))
      [] matches(p, <<"Number", "String">>).b ->
           POk(advance(p), LitExpr(previous(advance(p)).literal))
      [] matches(p, <<"Identifier">>).b -> POk(advance(p), VarExpr(previous(advance(p))))
      [] matches(p, <<"LeftParen">>).b ->
           primary_expr(Parse("expression", advance(p), <<>>))
      [] OTHER -> PErr(p, ParseError(peek(p), "Expect expression."))

\* Parser::arguments, lines 551-554: the argument e is pushed.  try is TRUE
\* when r is the Result of the loop, Ok(Some(args)), or the Err that `?`
\* returns from arguments.
arguments_push(e, args) ==
    IF ~e.ok THEN [p |-> e.p, try |-> TRUE, ok |-> FALSE, err |-> e.err]
    ELSE IF ~matches(e.p, <<"Comma">>).b
    THEN [p |-> e.p, try |-> TRUE, ok |-> TRUE,
          value |-> SomeArguments(Append(args, e.value))]
    ELSE arguments_loop(advance(e.p), Append(args, e.value))

\* The most parameters of a declaration and arguments of a call.
MaxArgs == 255

\* A faulty arguments loop: it has no limit.
arguments_loop_unlimited(p, args) ==
    arguments_push(Parse("expression", p, <<>>), args)

\* Parser::arguments, the loop.  try is FALSE when the loop broke with the
\* "more than 255" error, which is kept in try_arguments.
arguments_loop(p, args) ==
    IF Len(args) >= MaxArgs
    THEN [p |-> p, try |-> FALSE, ok |-> FALSE,
          err |-> error(p, peek(p), "Can't have more than 255 arguments")]
    ELSE arguments_push(Parse("expression", p, <<>>), args)

\* Parser::arguments, lines 543-558: the local try_arguments.
try_arguments(p) ==
    IF ~check(p, "RightParen") THEN arguments_loop(p, <<>>)
    ELSE [p |-> p, try |-> TRUE, ok |-> TRUE, value |-> NoArguments]

\* Parser::arguments, lines 562-570: after `paren`.
arguments_paren(callee, t, paren) ==
    IF ~paren.ok THEN paren
    ELSE IF t.ok THEN POk(paren.p, CallExpr(callee, paren.value, t.value))
    ELSE PErr(paren.p, t.err)

\* Parser::arguments, lines 560-570: after try_arguments is t.
arguments_try(callee, t) ==
    IF t.try /\ ~t.ok THEN PErr(t.p, t.err)
    ELSE arguments_paren(callee, t,
                         consume(t.p, "RightParen", "Expect ')' after arguments"))

\* Parser::arguments
arguments(p, callee) == arguments_try(callee, try_arguments(p))

\* Parser::call, the loop, after the call expression a.
call_loop_arguments(a) ==
    IF a.ok THEN call_loop(a.p, a.value) ELSE a

\* Parser::call, the loop.
call_loop(p, expr) ==
    IF ~matches(p, <<"LeftParen">>).b THEN POk(p, expr)
    ELSE call_loop_arguments(arguments(advance(p), expr))

\* Parser::call, after the primary expression.
call_primary(expr) ==
    IF expr.ok THEN call_loop(expr.p, expr.value) ELSE expr

\* Parser::call
call(p) == call_primary(primary(p))

\* Parser::unary, after `right`.
unary_operand(operator, right) ==
    IF right.ok THEN POk(right.p, UnaryExpr(operator, right.value)) ELSE right

\* Parser::unary
unary(p) ==
    IF matches(p, <<"Bang", "Minus">>).b
    THEN unary_operand(previous(advance(p)), unary(advance(p)))
    ELSE call(p)

\* Parser::factor, the loop, after `right`.
factor_right(expr, operator, right) ==
    IF right.ok
    THEN Parse("factor_loop", right.p, BinaryExpr(expr, operator, right.value))
    ELSE right

\* Parser::factor, the loop.
factor_loop(p, expr) ==
    IF ~matches(p, <<"Star", "Slash">>).b THEN POk(p, expr)
    ELSE factor_right(expr, previous(advance(p)), unary(advance(p)))

\* Parser::factor, after the first operand.
factor_expr(expr) ==
    IF expr.ok THEN Parse("factor_loop", expr.p, expr.value) ELSE expr

\* Parser::factor
factor(p) == factor_expr(unary(p))

\* Parser::term, the loop, after `right`.
term_right(expr, operator, right) ==
    IF right.ok
    THEN Parse("term_loop", right.p, BinaryExpr(expr, operator, right.value))
    ELSE right

\* Parser::term, the loop.
term_loop(p, expr) ==
    IF ~matches(p, <<"Plus", "Minus">>).b THEN POk(p, expr)
    ELSE term_right(expr, previous(advance(p)), factor(advance(p)))

\* Parser::term, after the first operand.
term_expr(expr) ==
    IF expr.ok THEN Parse("term_loop", expr.p, expr.value) ELSE expr

\* A faulty term: its first operand is a unary, not a factor.
term_of_unary(p) == term_expr(unary(p))

\* Parser::term
term(p) == term_expr(factor(p))

\* Parser::comparison, the loop, after `right`.
comparison_right(expr, operator, right) ==
    IF right.ok
    THEN Parse("comparison_loop", right.p, BinaryExpr(expr, operator, right.value))
    ELSE right

\* Parser::comparison, the loop.
comparison_loop(p, expr) ==
    IF ~matches(p, <<"Greater", "GreaterEqual", "Less", "LessEqual">>).b THEN POk(p, expr)
    ELSE comparison_right(expr, previous(advance(p)), term(advance(p)))

\* Parser::comparison, after the first operand.
comparison_expr(expr) ==
    IF expr.ok THEN Parse("comparison_loop", expr.p, expr.value) ELSE expr

\* Parser::comparison
comparison(p) == comparison_expr(term(p))

\* Parser::equality, the loop, after `right`.
equality_right(expr, operator, right) ==
    IF right.ok
    THEN Parse("equality_loop", right.p, BinaryExpr(expr, operator, right.value))
    ELSE right

\* Parser::equality, the loop.
equality_loop(p, expr) ==
    IF ~matches(p, <<"BangEqual", "EqualEqual">>).b THEN POk(p, expr)
    ELSE equality_right(expr, previous(advance(p)), comparison(advance(p)))

\* Parser::equality, after the first operand.
equality_expr(expr) ==
    IF expr.ok THEN Parse("equality_loop", expr.p, expr.value) ELSE expr

\* Parser::equality
equality(p) == equality_expr(comparison(p))

\* Parser::and, the loop, after `right`.
and_right(expr, operator, right) ==
    IF right.ok
    THEN Parse("and_loop", right.p, LogicExpr(expr, operator, right.value))
    ELSE right

\* Parser::and, the loop.
and_loop(p, expr) ==
    IF ~matches(p, <<"And">>).b THEN POk(p, expr)
    ELSE and_right(expr, previous(advance(p)), equality(advance(p)))

\* Parser::and, after the first operand.
and_expr(expr) ==
    IF expr.ok THEN Parse("and_loop", expr.p, expr.value) ELSE expr

\* Parser::and
and(p) == and_expr(equality(p))

\* Parser::or, the loop, after `right`.
or_right(expr, operator, right) ==
    IF right.ok
    THEN Parse("or_loop", right.p, LogicExpr(expr, operator, right.value))
    ELSE right

\* Parser::or, the loop.
or_loop(p, expr) ==
    IF ~matches(p, <<"Or">>).b THEN POk(p, expr)
    ELSE or_right(expr, previous(advance(p)), and(advance(p)))

\* Parser::or, after the first operand.
or_expr(expr) ==
    IF expr.ok THEN Parse("or_loop", expr.p, expr.value) ELSE expr

\* Parser::or
or(p) == or_expr(and(p))

\* Parser::assignment, after `value`.
assignment_value(expr, value) ==
    IF value.ok
    THEN IF expr.value.node = "VarExpr"
    THEN POk(value.p, AssignExpr(expr.value.name, value.value))
    ELSE PErr(value.p, ParseError(previous(value.p), "Invalid assignment target."))
    ELSE value

\* Parser::assignment, after `expr`.
assignment_expr(expr) ==
    IF expr.ok
    THEN IF matches(expr.p, <<"Equal">>).b
    THEN assignment_value(expr, assignment(advance(expr.p)))
    ELSE expr
    ELSE expr

\* Parser::assignment
assignment(p) == assignment_expr(or(p))

\* Parser::expression
expression(p) == assignment(p)

\* Parser::statement, after the statements of a block.
statement_block(b) ==
    IF b.ok THEN POk(b.p, BlockStmt(b.value)) ELSE b

\* Parser::print_statement, after `c`.
print_statement_c(value, c) ==
    IF c.ok THEN POk(c.p, PrintStmt(value.value)) ELSE c

\* Parser::print_statement, after `value`.
print_statement_value(value) ==
    IF value.ok
    THEN print_statement_c(value, consume(value.p, "Semicolon",
            "Expect ';' after value"))
    ELSE value

\* Parser::print_statement
print_statement(p) ==
    print_statement_value(Parse("expression", p, <<>>))

\* Parser::return_statement, after `c`.
return_statement_c(p, value, c) ==
    IF c.ok THEN POk(c.p, ReturnStmt(previous(p), value.value)) ELSE c

\* Parser::return_statement, after `value`.
return_statement_value(p, value) ==
    IF value.ok
    THEN return_statement_c(p, value, consume(value.p, "Semicolon",
            "Expect ';' after return value"))
    ELSE value

\* Parser::return_statement
return_statement(p) ==
    return_statement_value(p, IF ~check(p, "Semicolon") THEN Parse("expression", p,
            <<>>) ELSE POk(p, NullExpr))

\* Parser::while_statement, after `body`.
while_statement_body(condition, body) ==
    IF body.ok THEN POk(body.p, WhileStmt(condition.value, body.value)) ELSE body

\* Parser::while_statement, after `c2`.
while_statement_c2(condition, c2) ==
    IF c2.ok
    THEN while_statement_body(condition, Parse("statement", c2.p, <<>>))
    ELSE c2

\* Parser::while_statement, after `condition`.
while_statement_condition(condition) ==
    IF condition.ok
    THEN while_statement_c2(condition, consume(condition.p, "RightParen",
            "Expect ) after 'while'."))
    ELSE condition

\* Parser::while_statement, after `c1`.
while_statement_c1(c1) ==
    IF c1.ok THEN while_statement_condition(Parse("expression", c1.p, <<>>)) ELSE c1

\* Parser::while_statement
while_statement(p) ==
    while_statement_c1(consume(p, "LeftParen", "Expect ( after 'while'."))

\* Parser::block, after `c`.
block_c(s, c) ==
    IF c.ok THEN [s EXCEPT !.p = c.p] ELSE c

\* Parser::block, after `s`.
block_s(s) ==
    IF s.ok
    THEN block_c(s, consume(s.p, "RightBrace", "Expect } after block."))
    ELSE s

\* Parser::block: Ok with the statements of the Block.
block(p) ==
    block_s(block_statements(p, <<>>))

\* Parser::if_statement, after `else_branch`.
if_statement_else_branch(condition, then_branch, else_branch) ==
    IF else_branch.ok
    THEN POk(else_branch.p, IfStmt(condition.value, then_branch.value, else_branch.value))
    ELSE else_branch

\* if_statement, lines 218-222: the else branch, m the match of `else`.
if_statement_else(m) ==
    IF m.b THEN Parse("statement", m.p, <<>>)
    ELSE POk(m.p, ExprStmt(NullExpr))

\* Parser::if_statement, after `then_branch`.
if_statement_then_branch(condition, then_branch) ==
    IF then_branch.ok
    THEN if_statement_else_branch(condition, then_branch,
            if_statement_else(matches(then_branch.p, <<"Else">>)))
    ELSE then_branch

\* Parser::if_statement, after `c2`.
if_statement_c2(condition, c2) ==
    IF c2.ok
    THEN if_statement_then_branch(condition, Parse("statement", c2.p, <<>>))
    ELSE c2

\* Parser::if_statement, after `condition`.
if_statement_condition(condition) ==
    IF condition.ok
    THEN if_statement_c2(condition, consume(condition.p, "RightParen",
            "Expect ) after condition"))
    ELSE condition

\* Parser::if_statement, after `c1`.
if_statement_c1(c1) ==
    IF c1.ok THEN if_statement_condition(Parse("expression", c1.p, <<>>)) ELSE c1

\* Parser::if_statement
if_statement(p) ==
    if_statement_c1(consume(p, "LeftParen", "Expect ( after if"))

\* for_statement, lines 278-283: the initialiser goes before the while loop.
for_initialiser(initialiser, body) ==
    IF initialiser.some THEN BlockStmt(<<initialiser.x, body>>) ELSE body

\* for_statement, lines 266-276: the body goes into a while statement.
for_while(condition, body) ==
    IF ~condition.some THEN WhileStmt(LitExpr(LBool(TRUE)), body)
    ELSE WhileStmt(condition.x, body)

\* A faulty for_statement: the increment goes before the body.
for_increment_first(increment, body) ==
    IF increment.some
    THEN BlockStmt(<<ExprStmt(increment.x), body>>)
    ELSE body

\* for_statement, lines 259-264: the increment goes to the end of the body.
for_increment(increment, body) ==
    IF increment.some
    THEN BlockStmt(<<body, ExprStmt(increment.x)>>)
    ELSE body

\* Parser::for_statement, after `body`.
for_statement_body(initialiser, condition, increment, body) ==
    IF body.ok
    THEN POk(body.p, for_initialiser(initialiser.value, for_while(condition.value, for_increment(increment.value, body.value))))
    ELSE body

\* Parser::for_statement, after `c3`.
for_statement_c3(initialiser, condition, increment, c3) ==
    IF c3.ok
    THEN for_statement_body(initialiser, condition, increment, Parse("statement", c3.p,
            <<>>))
    ELSE c3

\* Parser::for_statement, after `increment`.
for_statement_increment(initialiser, condition, increment) ==
    IF increment.ok
    THEN for_statement_c3(initialiser, condition, increment, consume(increment.p,
            "RightParen", "Expect ) after for clauses"))
    ELSE increment

\* Option<T> of for_statement.
None == [some |-> FALSE]
Some(x) == [some |-> TRUE, x |-> x]

\* Ok(Some(v)) from the Ok(v) of x, and the Err of x.
OkSome(x) == IF x.ok THEN POk(x.p, Some(x.value)) ELSE x

\* for_statement, lines 250-254: the increment clause.
for_statement_increment_clause(p) ==
    IF ~check(p, "RightParen") THEN OkSome(Parse("expression", p, <<>>))
    ELSE POk(p, None)

\* Parser::for_statement, after `c2`.
for_statement_c2(initialiser, condition, c2) ==
    IF c2.ok
    THEN for_statement_increment(initialiser, condition,
            for_statement_increment_clause(c2.p))
    ELSE c2

\* Parser::for_statement, after `condition`.
for_statement_condition(initialiser, condition) ==
    IF condition.ok
    THEN for_statement_c2(initialiser, condition, consume(condition.p, "Semicolon",
            "Expect ; after loop condition"))
    ELSE condition

\* for_statement, lines 243-247: the condition clause.
for_statement_condition_clause(p) ==
    IF ~check(p, "Semicolon") THEN OkSome(Parse("expression", p, <<>>))
    ELSE POk(p, None)

\* Parser::for_statement, after `initialiser`.
for_statement_initialiser(initialiser) ==
    IF initialiser.ok
    THEN for_statement_condition(initialiser,
            for_statement_condition_clause(initialiser.p))
    ELSE initialiser

\* Parser::var_declaration, after `c`.
var_declaration_c(name, initialiser, c) ==
    IF c.ok THEN POk(c.p, VarDeclStmt(name.value, initialiser.value)) ELSE c

\* Parser::var_declaration, after `initialiser`.
var_declaration_initialiser(name, initialiser) ==
    IF initialiser.ok
    THEN var_declaration_c(name, initialiser, consume(initialiser.p, "Semicolon",
            "Expect ; after variable declaration."))
    ELSE initialiser

\* var_declaration, lines 313-317: the initialiser, m the match of `=`.
var_declaration_equal(m) ==
    IF m.b THEN Parse("expression", m.p, <<>>)
    ELSE POk(m.p, NullExpr)

\* Parser::var_declaration, after `name`.
var_declaration_name(name) ==
    IF name.ok
    THEN var_declaration_initialiser(name, var_declaration_equal(matches(name.p,
            <<"Equal">>)))
    ELSE name

\* Parser::var_declaration
var_declaration(p) ==
    var_declaration_name(consume(p, "Identifier", "Expect variable name"))

\* Parser::expression_statement, after `c`.
expression_statement_c(value, c) ==
    IF c.ok THEN POk(c.p, ExprStmt(value.value)) ELSE c

\* Parser::expression_statement, after `value`.
expression_statement_value(value) ==
    IF value.ok
    THEN expression_statement_c(value, consume(value.p, "Semicolon",
            "Expect ';' after value"))
    ELSE value

\* Parser::expression_statement
expression_statement(p) ==
    expression_statement_value(Parse("expression", p, <<>>))

\* for_statement, lines 235-241: the initialiser clause.
for_statement_initialiser_clause(p) ==
    IF matches(p, <<"Semicolon">>).b THEN POk(advance(p), None)
    ELSE IF matches(p, <<"Var">>).b
    THEN OkSome(var_declaration(advance(p)))
    ELSE OkSome(expression_statement(p))

\* Parser::for_statement, after `c1`.
for_statement_c1(c1) ==
    IF c1.ok
    THEN for_statement_initialiser(for_statement_initialiser_clause(c1.p))
    ELSE c1

\* Parser::for_statement
for_statement(p) ==
    for_statement_c1(consume(p, "LeftParen", "Expect '(' after for statement"))

\* Parser::statement
statement(p) ==
    CASE matches(p, <<"Print">>).b -> print_statement(advance(p))
      [] matches(p, <<"Return">>).b -> return_statement(advance(p))
      [] matches(p, <<"While">>).b -> while_statement(advance(p))
      [] matches(p, <<"LeftBrace">>).b -> statement_block(block(advance(p)))
      [] matches(p, <<"If">>).b -> if_statement(advance(p))
      [] matches(p, <<"For">>).b -> for_statement(advance(p))
      [] OTHER -> expression_statement(p)

\* Parser::block, the loop, after the declaration d.
block_statements_d(statements, d) ==
    IF d.ok THEN block_statements(d.p, Append(statements, d.value)) ELSE d

\* Parser::block, the loop: Ok with the statements.
block_statements(p, statements) ==
    IF ~check(p, "RightBrace") /\ ~is_at_end(p)
    THEN block_statements_d(statements, Parse("declaration", p, <<>>))
    ELSE POk(p, statements)

\* Parser::function, lines 341-348: after the parameter pushed, m the match of
\* a comma.
parameters_comma(m, parameters) ==
    IF ~m.b THEN POk(m.p, parameters)
    ELSE IF Len(parameters) >= MaxArgs
    THEN PErr(m.p, error(m.p, peek(m.p), "Can't have more than 255 parameters"))
    ELSE parameters_loop(m.p, parameters)

\* Parser::function, lines 337-340: the parameter c is pushed.
parameters_push(c, parameters) ==
    IF c.ok
    THEN parameters_comma(matches(c.p, <<"Comma">>), Append(parameters, c.value))
    ELSE c

\* Parser::function, the loop over the parameters: Ok with the parameters.
parameters_loop(p, parameters) ==
    parameters_push(consume(p, "Identifier", "Expect identifier name"), parameters)

\* Parser::function, after `body`.
function_body(name, parameters, body) ==
    IF body.ok
    THEN POk(body.p, FuncDecl(name.value, parameters.value, body.value))
    ELSE body

\* Parser::function, after `c3`.
function_c3(name, parameters, c3) ==
    IF c3.ok
    THEN function_body(name, parameters, block(c3.p))
    ELSE c3

\* Parser::function, after `c2`.
function_c2(kind, name, parameters, c2) ==
    IF c2.ok
    THEN function_c3(name, parameters, consume(c2.p, "LeftBrace",
            "Expect '{' before " \o kind \o " body"))
    ELSE c2

\* Parser::function, after `parameters`.
function_parameters(kind, name, parameters) ==
    IF parameters.ok
    THEN function_c2(kind, name, parameters, consume(parameters.p, "RightParen",
            "Expect ')' after parameters"))
    ELSE parameters

\* Parser::function, after `c1`.
function_c1(kind, name, c1) ==
    IF c1.ok
    THEN function_parameters(kind, name, IF ~check(c1.p,
            "RightParen") THEN parameters_loop(c1.p, <<>>) ELSE POk(c1.p, <<>>))
    ELSE c1

\* Parser::function, after `name`.
function_name(kind, name) ==
    IF name.ok
    THEN function_c1(kind, name, consume(name.p, "LeftParen",
            "Expect '(' after " \o kind \o " name"))
    ELSE name

\* Parser::function
function(p, kind) ==
    function_name(kind, consume(p, "Identifier", "Expect " \o kind \o " name"))

\* Parser::declaration, lines 440-447: a failed statement synchronises.
declaration_stmt_result(stmt_result) ==
    IF stmt_result.ok THEN stmt_result
    ELSE [stmt_result EXCEPT !.p = synchronise(stmt_result.p)]

\* Parser::declaration
declaration(p) ==
    CASE matches(p, <<"Fun">>).b -> function(advance(p), "function")
      [] matches(p, <<"Var">>).b -> var_declaration(advance(p))
      [] OTHER -> declaration_stmt_result(statement(p))

\* The call of the parsing function named f.
Parse(f, p, x) ==
    CASE f = "declaration" -> declaration(p)
      [] f = "statement" -> statement(p)
      [] f = "expression" -> expression(p)
      [] f = "or_loop" -> or_loop(p, x)
      [] f = "and_loop" -> and_loop(p, x)
      [] f = "equality_loop" -> equality_loop(p, x)
      [] f = "comparison_loop" -> comparison_loop(p, x)
      [] f = "term_loop" -> term_loop(p, x)
      [] f = "factor_loop" -> factor_loop(p, x)

\* Parser::parse, the loop, after the declaration d.
RECURSIVE parse_loop(_, _)

parse_d(statements, d) ==
    IF d.ok THEN parse_loop(d.p, Append(statements, d.value)) ELSE d

\* Parser::parse, the loop.
parse_loop(p, statements) ==
    IF is_at_end(p) THEN POk(p, statements)
    ELSE parse_d(statements, declaration(p))

\* Parser::parse
parse(p) == parse_loop(p, <<>>)

(***************************************************************************)
(* scanner.rs, by lexeme: the token scan_token adds for the lexeme w, and  *)
(* the tokens of a source text given as its sequence of lexemes.           *)
(***************************************************************************)
\* Scanner::identifier, the keyword table.
Keywords ==
    [and |-> "And", class |-> "Class", else |-> "Else", false |-> "False",
     for |-> "For", fun |-> "Fun", if |-> "If", nil |-> "Nil", or |-> "Or",
     print |-> "Print", return |-> "Return", super |-> "Super", this |-> "This",
     true |-> "True", var |-> "Var", while |-> "While"]

\* Scanner::scan_token, the lexemes of one or two characters.
Punctuation ==
    ("(" :> "LeftParen") @@ (")" :> "RightParen") @@ ("{" :> "LeftBrace")
    @@ ("}" :> "RightBrace") @@ ("," :> "Comma") @@ ("." :> "Dot")
    @@ ("-" :> "Minus") @@ ("+" :> "Plus") @@ (";" :> "Semicolon")
    @@ ("*" :> "Star") @@ ("/" :> "Slash") @@ ("!" :> "Bang")
    @@ ("!=" :> "BangEqual") @@ ("=" :> "Equal") @@ ("==" :> "EqualEqual")
    @@ ("<" :> "Less") @@ ("<=" :> "LessEqual") @@ (">" :> "Greater")
    @@ (">=" :> "GreaterEqual")

\* The texts of the string literals the sources use.
StringTexts == {"x", "t", "f", "no", "pre", "post", "1", "2", "hi ", "body", "callee"}

\* A numeral of forty digits: f32's parse of it is the infinity.
Huge == "1000000000000000000000000000000000000000"

\* Scanner::scan_token with identifier, number and string, for one lexeme.
Lexeme(w, line) ==
    IF w \in DOMAIN Punctuation THEN Token(Punctuation[w], w, LNull, line)
    ELSE IF w \in DOMAIN Keywords THEN Token(Keywords[w], w, LNull, line)
    ELSE IF \E n \in 0..MaxNum : NatToString(n) = w
    THEN Token("Number", w,
               LNumber(CHOOSE n \in 0..MaxNum : NatToString(n) = w), line)
    ELSE IF w = Huge THEN Token("Number", w, Infinity(FALSE), line)
    ELSE IF \E s \in StringTexts : w = "\"" \o s \o "\""
    THEN Token("String", w,
               LString(CHOOSE s \in StringTexts : w = "\"" \o s \o "\""), line)
    ELSE Token("Identifier", w, LNull, line)

\* Scanner::scan_tokens: the tokens of the lexemes, then the Eof token.
Tokens(ws) ==
    [i \in 1..Len(ws) |-> Lexeme(ws[i], 1)] \o <<Token("Eof", "", LNull, 1)>>

\* The lexemes scan_token fails on: a character that starts no token, and a
\* string without its closing quote (it runs to the end of the text).
Unexpected == {"@", "#"}
Unterminated(w) ==
    SubSeq(w, 1, 1) = "\"" /\ (Len(w) = 1 \/ SubSeq(w, Len(w), Len(w)) # "\"")
Fails(w) == w \in Unexpected \/ Unterminated(w)

\* Scanner::scan_tokens on the lexemes: the LoxError of the first lexeme that
\* fails, or the tokens.
ScanLexemes(ws) ==
    IF \E i \in 1..Len(ws) : Fails(ws[i])
    THEN LET w == ws[CHOOSE i \in 1..Len(ws) :
                       Fails(ws[i]) /\ \A j \in 1..(i - 1) : ~Fails(ws[j])]
         IN  [tag |-> "Err",
              err |-> [line |-> 1,
                       message |-> IF w \in Unexpected THEN "Unexpected character."
                                   ELSE "Unterminated string."]]
    ELSE [tag |-> "Ok", tokens |-> Tokens(ws)]


(***************************************************************************)
(* scanner.rs, by character.  A source text is the sequence of its         *)
(* characters, each a string of length one; the characters are ASCII, so   *)
(* a byte index of the code is a character index.  The code's indices      *)
(* start at 0: its source[i] is source[i + 1] here.  The field `panic`     *)
(* tells that the thread is unwinding from a panic.                        *)
(***************************************************************************)
\* The character '\0' that peek and peek_next answer at the end of the text.
Nul == "NUL"

\* char::is_ascii_digit, char::is_alphabetic and char::is_alphanumeric
Digits == {"0", "1", "2", "3", "4", "5", "6", "7", "8", "9"}
Letters ==
    {"a", "b", "c", "d", "e", "f", "g", "h", "i", "j", "k", "l", "m", "n", "o",
     "p", "q", "r", "s", "t", "u", "v", "w", "x", "y", "z",
     "A", "B", "C", "D", "E", "F", "G", "H", "I", "J", "K", "L", "M", "N", "O",
     "P", "Q", "R", "S", "T", "U", "V", "W", "X", "Y", "Z"}
is_ascii_digit(c) == c \in Digits
is_alphabetic(c) == c \in Letters
is_alphanumeric(c) == c \in Letters \cup Digits

\* The String of a sequence of characters.
RECURSIVE Concat(_)
Concat(cs) == IF cs = <<>> THEN "" ELSE Head(cs) \o Concat(Tail(cs))

\* error.rs: LoxError
LoxError(line, message) == [line |-> line, message |-> message]

\* The Result of scan_token and of scan_tokens; None while the scan runs.
ScanOk == [tag |-> "Ok"]
ScanErr(e) == [tag |-> "Err", err |-> e]
ScanPanic(message) == [tag |-> "Panic", message |-> message]
ScanNone == [tag |-> "None"]

\* Scanner::new
ScannerNew(source) ==
    [source |-> source, tokens |-> <<>>, start |-> 0, current |-> 0,
     line |-> 1, panic |-> FALSE]

\* Scanner::is_at_end
Scanner_is_at_end(sc) == sc.current >= Len(sc.source)

\* Scanner::peek
Scanner_peek(sc) ==
    IF Scanner_is_at_end(sc) THEN Nul ELSE sc.source[sc.current + 1]

\* Scanner::peek_next
peek_next(sc) ==
    IF sc.current + 1 >= Len(sc.source) THEN Nul ELSE sc.source[sc.current + 2]

\* Scanner::advance: the expect panics when there is no character left.
Scanner_advance(sc) ==
    [sc EXCEPT !.current = @ + 1,
               !.panic = @ \/ sc.current >= Len(sc.source)]

\* Scanner::matches
Scanner_matches(sc, expected) ==
    IF Scanner_is_at_end(sc) \/ sc.source[sc.current + 1] # expected
    THEN [sc |-> sc, r |-> FALSE]
    ELSE [sc |-> [sc EXCEPT !.current = @ + 1], r |-> TRUE]

\* source[start..current]
Text(sc) == Concat(SubSeq(sc.source, sc.start + 1, sc.current))

\* Scanner::add_token_literal and Scanner::add_token
add_token_literal(sc, ttype, literal) ==
    [sc EXCEPT !.tokens = Append(@, Token(ttype, Text(sc), literal, sc.line))]
add_token(sc, ttype) == add_token_literal(sc, ttype, LNull)

\* Scanner::identifier: the while loop, then the keyword table.
RECURSIVE identifier_loop(_)
identifier_loop(sc) ==
    IF is_alphanumeric(Scanner_peek(sc))
    THEN identifier_loop(Scanner_advance(sc))
    ELSE sc

identifier(sc) ==
    LET s == identifier_loop(sc)
        text == Text(s)
    IN  add_token(s, IF text \in DOMAIN Keywords THEN Keywords[text]
                     ELSE "Identifier")

(***************************************************************************)
(* str::parse::<f32> of a numeral `digits` or `digits.digits`: it never    *)
(* fails on such a text, so number's "No number" is not reached.  A        *)
(* numeral of forty digits or more is beyond f32::MAX and parses to the    *)
(* infinity; of the others the model follows those of at most MaxDigits    *)
(* digits on either side of the point whose value is InRange.              *)
(***************************************************************************)
MaxDigits == 2

RECURSIVE DigitsValue(_)
DigitsValue(cs) ==
    IF cs = <<>> THEN 0
    ELSE 10 * DigitsValue(SubSeq(cs, 1, Len(cs) - 1))
         + (CHOOSE d \in 0..9 : Digit(d) = cs[Len(cs)])

RECURSIVE Pow10(_)
Pow10(n) == IF n = 0 THEN 1 ELSE 10 * Pow10(n - 1)

RECURSIVE StripLeadingZeros(_)
StripLeadingZeros(cs) ==
    IF cs # <<>> /\ Head(cs) = "0" THEN StripLeadingZeros(Tail(cs)) ELSE cs

RECURSIVE StripTrailingZeros(_)
StripTrailingZeros(cs) ==
    IF cs # <<>> /\ cs[Len(cs)] = "0"
    THEN StripTrailingZeros(SubSeq(cs, 1, Len(cs) - 1))
    ELSE cs

parse_f32(cs) ==
    LET dot == IF \E i \in 1..Len(cs) : cs[i] = "."
               THEN CHOOSE i \in 1..Len(cs) : cs[i] = "."
               ELSE Len(cs) + 1
        whole == StripLeadingZeros(SubSeq(cs, 1, dot - 1))
        fraction == StripTrailingZeros(SubSeq(cs, dot + 1, Len(cs)))
    IN  IF Len(whole) >= 40 THEN Ok(Infinity(FALSE))
        ELSE IF Len(whole) > MaxDigits \/ Len(fraction) > MaxDigits
        THEN Unmodelled
        ELSE NumResult(Frac(DigitsValue(whole) * Pow10(Len(fraction))
                              + DigitsValue(fraction),
                            Pow10(Len(fraction)), FALSE))

\* Scanner::number: the two while loops.
RECURSIVE number_digits(_)
number_digits(sc) ==
    IF is_ascii_digit(Scanner_peek(sc))
    THEN number_digits(Scanner_advance(sc))
    ELSE sc

\* Scanner::number
number(sc) ==
    LET a == number_digits(sc)
        b == IF Scanner_peek(a) = "." /\ is_ascii_digit(peek_next(a))
             THEN number_digits(Scanner_advance(a))
             ELSE a
        try_num == parse_f32(SubSeq(b.source, b.start + 1, b.current))
    IN  IF try_num.tag = "Ok"
        THEN [sc |-> add_token_literal(b, "Number", try_num.value), r |-> ScanOk]
        ELSE [sc |-> b, r |-> Unmodelled]

\* Scanner::string: the while loop.
RECURSIVE string_loop(_)
string_loop(sc) ==
    IF Scanner_peek(sc) # "\"" /\ ~Scanner_is_at_end(sc)
    THEN string_loop(Scanner_advance(
             IF Scanner_peek(sc) = "\n" THEN [sc EXCEPT !.line = @ + 1] ELSE sc))
    ELSE sc

\* Scanner::string
string(sc) ==
    LET a == string_loop(sc)
        b == Scanner_advance(a)
        value == Concat(SubSeq(b.source, b.start + 2, b.current - 1))
    IN  IF Scanner_is_at_end(a)
        THEN [sc |-> a, r |-> ScanErr(LoxError(a.line, "Unterminated string."))]
        ELSE [sc |-> add_token_literal(b, "String", LString(value)), r |-> ScanOk]

\* Scanner::scan_token, '/' followed by '/': the while loop.
RECURSIVE line_comment(_)
line_comment(sc) ==
    IF Scanner_peek(sc) # "\n" /\ ~Scanner_is_at_end(sc)
    THEN line_comment(Scanner_advance(sc))
    ELSE sc

\* Scanner::scan_token, '/' followed by '*': the while loop, then the two
\* calls of advance.
RECURSIVE block_comment(_)
block_comment(sc) ==
    IF Scanner_peek(sc) # "*" /\ peek_next(sc) # "/"
    THEN IF Scanner_is_at_end(sc)
         THEN [sc |-> sc,
               r |-> ScanErr(LoxError(sc.line, "Unclosed block comment."))]
         ELSE block_comment(Scanner_advance(sc))
    ELSE [sc |-> Scanner_advance(Scanner_advance(sc)), r |-> ScanOk]

\* Scanner::scan_token, the characters that are a token by themselves.
SingleCharacters ==
    ("(" :> "LeftParen") @@ (")" :> "RightParen") @@ ("{" :> "LeftBrace")
    @@ ("}" :> "RightBrace") @@ ("," :> "Comma") @@ ("." :> "Dot")
    @@ ("-" :> "Minus") @@ ("+" :> "Plus") @@ (";" :> "Semicolon")
    @@ ("*" :> "Star")

\* Scanner::scan_token, the characters that an '=' may follow.
WithEqual ==
    ("!" :> <<"BangEqual", "Bang">>) @@ ("=" :> <<"EqualEqual", "Equal">>)
    @@ ("<" :> <<"LessEqual", "Less">>) @@ (">" :> <<"GreaterEqual", "Greater">>)

\* Scanner::scan_token, called when the scanner is not at the end.
scan_token(sc) ==
    LET c == sc.source[sc.current + 1]
        a == Scanner_advance(sc)
        is_equals == Scanner_matches(a, "=")
        slash == Scanner_matches(a, "/")
        star == Scanner_matches(a, "*")
    IN  CASE c \in DOMAIN SingleCharacters ->
               [sc |-> add_token(a, SingleCharacters[c]), r |-> ScanOk]
          [] c \in DOMAIN WithEqual ->
               [sc |-> add_token(is_equals.sc,
                                 WithEqual[c][IF is_equals.r THEN 1 ELSE 2]),
                r |-> ScanOk]
          [] c = "/" ->
               IF slash.r THEN [sc |-> line_comment(slash.sc), r |-> ScanOk]
               ELSE IF star.r THEN block_comment(star.sc)
               ELSE [sc |-> add_token(a, "Slash"), r |-> ScanOk]
          [] c \in {" ", "\r", "\t"} -> [sc |-> a, r |-> ScanOk]
          [] c = "\n" -> [sc |-> [a EXCEPT !.line = @ + 1], r |-> ScanOk]
          [] c = "\"" -> string(a)
          [] OTHER ->
               IF is_ascii_digit(c) THEN number(a)
               ELSE IF is_alphabetic(c)
               THEN [sc |-> identifier(a), r |-> ScanOk]
               ELSE [sc |-> a,
                     r |-> ScanErr(LoxError(a.line, "Unexpected character."))]

\* Scanner::scan_tokens, one turn of the while loop: a panic unwinds, and
\* the `?` returns an Err.
scan_tokens_turn(sc) ==
    LET x == scan_token([sc EXCEPT !.start = sc.current])
    IN  IF x.sc.panic
        THEN [sc |-> x.sc, r |-> ScanPanic("Failed to advance while scanning")]
        ELSE x

\* Scanner::scan_tokens, after the while loop: the Eof token.
scan_tokens_end(sc) ==
    [sc EXCEPT !.tokens = Append(@, Token("Eof", "", LNull, sc.line))]

\* Scanner::scan_tokens: the Scanner after, and Ok for Ok(&self.tokens).
RECURSIVE scan_tokens(_)
scan_tokens(sc) ==
    IF ~Scanner_is_at_end(sc)
    THEN LET x == scan_tokens_turn(sc)
         IN  IF x.r.tag = "Ok" THEN scan_tokens(x.sc) ELSE x
    ELSE [sc |-> scan_tokens_end(sc), r |-> ScanOk]

(***************************************************************************)
(* lox.rs: the prompt loop runs source texts on one Interpreter.           *)
(***************************************************************************)
\* The readings of the clock one run may see.
Clocks == {<<7, 7>>, <<8, 7>>}

\* The state of the Interpreter at the start of a run.
StateOf(h, e, clk) == [envs |-> h, environment |-> e, out |-> <<>>, clock |-> clk]

\* A faulty Lox::run: a parse error leaves a new Interpreter.
run_result_new(result, st) ==
    IF result.ok THEN interpret(result.value, 1, st, MaxFuel)
    ELSE [st |-> [st EXCEPT !.envs = InterpreterNew.envs,
                            !.environment = InterpreterNew.environment],
          r |-> [tag |-> "Err", err |-> result.err]]

\* Lox::run, lines 95-107: the statements are interpreted, or the parse error
\* is reported.
run_result(result, st) ==
    IF result.ok THEN interpret(result.value, 1, st, MaxFuel)
    ELSE [st |-> st, r |-> [tag |-> "Err", err |-> result.err]]

\* Lox::run, lines 86-108: the scan error is reported, or the tokens are
\* parsed.
run_scanned(result, st) ==
    IF result.tag = "Err" THEN [st |-> st, r |-> result]
    ELSE run_result(parse(ParserNew(result.tokens)), st)

\* Lox::run on the lexemes ws: the Interpreter after, and the Result of
\* interpret, the parse error or the scan error.
run(ws, st) == run_scanned(ScanLexemes(ws), st)

\* Source texts typed at the prompt.
VarA == <<"var", "a", "=", "1", ";">>
AssignA == <<"a", "=", "2", ";">>
Shadowing ==
    <<"{", "var", "a", "=", "3", ";", "print", "a", ";", "a", "=", "4", ";",
      "print", "a", ";", "}", "print", "a", ";">>
BlockError ==
    <<"{", "var", "b", "=", "2", ";", "print", "b", ";", "print", "zz", ";", "}">>
BlockReturn ==
    <<"{", "var", "b", "=", "2", ";", "{", "return", "b", ";", "}", "}">>
Closure ==
    <<"fun", "make", "(", ")", "{", "var", "n", "=", "0", ";",
      "fun", "inc", "(", ")", "{", "n", "=", "n", "+", "1", ";",
      "return", "n", ";", "}", "return", "inc", ";", "}",
      "var", "c", "=", "make", "(", ")", ";",
      "print", "c", "(", ")", ";", "print", "c", "(", ")", ";">>
VarClock == <<"var", "clock", "=", "1", ";">>
AssignClock == <<"clock", "=", "2", ";">>
CallClock == <<"print", "clock", "(", ")", ";">>
ForLoop ==
    <<"for", "(", "var", "i", "=", "0", ";", "i", "<", "2", ";",
      "i", "=", "i", "+", "1", ")", "print", "i", ";", "print", "i", ";">>
Returns ==
    <<"fun", "f", "(", "x", ")", "{", "if", "(", "x", ")", "return", "1", ";",
      "print", "\"post\"", ";", "}",
      "print", "f", "(", "true", ")", ";", "print", "f", "(", "false", ")", ";">>
NilOrX == <<"if", "(", "nil", "or", "\"x\"", ")", "print", "\"t\"", ";",
            "else", "print", "\"f\"", ";">>
ShortCircuit ==
    <<"print", "true", "or", "zz", ";", "print", "false", "and", "zz", ";">>
NoName == <<"print", "a", ";", "var", "=", "1", ";">>
ClockOfOne == <<"print", "clock", "(", "1", ")", ";">>
OneByZero == <<"print", "1", "/", "0", ";">>
OneIsOne == <<"print", "1", "==", "\"1\"", ";">>
NaNIsNaN == <<"print", Huge, "-", Huge, "==", Huge, "-", Huge, ";">>
BadCharacter == <<"print", "1", ";", "var", "a", "=", "2", ";", "@">>
OpenString == <<"a", "=", "6", ";", "print", "\"x">>
NoOperand == <<"var", "a", "=", "5", ";", "print", "(", ";">>
MidError ==
    <<"var", "a", "=", "2", ";", "print", "a", ";", "print", "zz", ";",
      "a", "=", "1", ";", "print", "a", ";">>
TopReturn ==
    <<"a", "=", "2", ";", "print", "\"pre\"", ";", "return", "a", ";",
      "a", "=", "1", ";", "print", "\"post\"", ";">>

Sources ==
    {VarA, AssignA, Shadowing, BlockError, BlockReturn, Closure, VarClock,
     AssignClock, CallClock, ForLoop, Returns, NilOrX, ShortCircuit, NoName,
     ClockOfOne, OneByZero, OneIsOne, NaNIsNaN, BadCharacter, OpenString,
     NoOperand, MidError, TopReturn}

\* The text of the lexemes ws, a space between two lexemes.
RECURSIVE Spell(_)
Spell(ws) ==
    IF ws = <<>> THEN ""
    ELSE IF Len(ws) = 1 THEN ws[1]
    ELSE ws[1] \o " " \o Spell(Tail(ws))

Init ==
    /\ envs = InterpreterNew.envs
    /\ environment = InterpreterNew.environment
    /\ input = <<>>
    /\ out = <<>>
    /\ last = OkUnit
    /\ scanner = ScannerNew(<<>>)
    /\ scanned = ScanNone

\* One turn of Lox::run_prompt: Lox::run on the source text ws.
Run(ws, clk) ==
    LET x == run(ws, StateOf(envs, environment, clk))
    IN  /\ x.r.tag # "Unmodelled"
        /\ envs' = x.st.envs
        /\ environment' = x.st.environment
        /\ input' = ws
        /\ out' = x.st.out
        /\ last' = x.r
        /\ UNCHANGED <<scanner, scanned>>

Next == \E ws \in Sources, clk \in Clocks : Run(ws, clk)

Spec == Init /\ [][Next]_vars

(***************************************************************************)
(* Scanner::scan_tokens on a source text of its own, one turn of its loop  *)
(* at a time.                                                              *)
(***************************************************************************)
\* The length of the source texts made of every character of Alphabet.
MaxLen == 4

Alphabet == {"/", "*", "\"", "\n", "a", "1", ".", "@"}

\* The characters of the string s.
Chars(s) == [i \in 1..Len(s) |-> SubSeq(s, i, i)]

Programs ==
    {Chars("var a = 1.5;\nprint a >= 10; // a\n"),
     Chars("if (x != nil) { f(\"a b\", -2); }"),
     Chars("/* a */ while (true) x = x + 0.25;"),
     Chars("fun f(a) {\n return a <= 1 or !a;\n}\t\r\n"),
     Chars("\"a\nb\" == 1 / 2 * 3 < 4 > 5\n\"c"),
     Chars("print 1;\n/* a\nb */\n#")}

Texts == UNION {[1..n -> Alphabet] : n \in 0..MaxLen} \cup Programs

ScanInit ==
    /\ envs = InterpreterNew.envs
    /\ environment = InterpreterNew.environment
    /\ input = <<>>
    /\ out = <<>>
    /\ last = OkUnit
    /\ scanner \in {ScannerNew(source) : source \in Texts}
    /\ scanned = ScanNone

\* One turn of the while loop of scan_tokens.
ScanToken ==
    /\ scanned = ScanNone
    /\ ~Scanner_is_at_end(scanner)
    /\ LET x == scan_tokens_turn(scanner)
       IN  /\ x.r.tag # "Unmodelled"
           /\ scanner' = x.sc
           /\ scanned' = IF x.r.tag = "Ok" THEN ScanNone ELSE x.r
    /\ UNCHANGED <<envs, environment, input, out, last>>

\* The end of scan_tokens: the Eof token and Ok(&self.tokens).
ScanEnd ==
    /\ scanned = ScanNone
    /\ Scanner_is_at_end(scanner)
    /\ scanner' = scan_tokens_end(scanner)
    /\ scanned' = ScanOk
    /\ UNCHANGED <<envs, environment, input, out, last>>

ScanNext == ScanToken \/ ScanEnd

ScanSpec == ScanInit /\ [][ScanNext]_vars

(***************************************************************************)
(* Lox::run on a print statement of an expression, from a new Interpreter. *)
(***************************************************************************)
BinaryOperators ==
    {"*", "/", "+", "-", ">", ">=", "<", "<=", "==", "!=", "and", "or"}

\* The unary operators in front of an operand.
Prefixes == {<<>>, <<"-">>, <<"!">>, <<"-", "-">>, <<"!", "-">>}

Expressions ==
    {<<"1", a, "2", b, "3">> : a, b \in BinaryOperators}
    \cup {<<"1", a, "2", b, "3", c, "4">> : a, b, c \in {"*", "+", "<", "==", "and", "or"}}
    \cup {u \o <<"1", a>> \o v \o <<"2">> : u, v \in Prefixes, a \in BinaryOperators}
    \cup {<<"6", "-", "3", "-", "1">>, <<"8", "/", "4", "/", "2">>,
          <<"a", "=", "b", "=", "1">>, <<"a", "=", "1", "or", "2">>,
          <<"a", "=", "-", "1", "+", "2", "==", "3">>}

ExprInit ==
    /\ envs = InterpreterNew.envs
    /\ environment = InterpreterNew.environment
    /\ input \in {<<"print">> \o e \o <<";">> : e \in Expressions}
    /\ out = <<>>
    /\ last = OkUnit
    /\ scanner = ScannerNew(<<>>)
    /\ scanned = ScanNone

\* Lox::run on the text, once.
RunPrint ==
    /\ out = <<>>
    /\ last = OkUnit
    /\ \E clk \in Clocks : Run(input, clk)

ExprSpec == ExprInit /\ [][RunPrint]_vars

(***************************************************************************)
(* Lox::run_file on a program, from a new Interpreter.                     *)
(***************************************************************************)
\* A program that calls f(A) in a block with the local y = L, with the
\* global x = G; f has the parameter q and the body b, and is declared at
\* top level or in the block.
Bodies(q) ==
    <<<<"print", q, ";">>,
      <<q, "=", "9", ";", "print", q, ";">>,
      <<"print", "y", ";">>,
      <<"y", "=", "9", ";">>,
      <<"print", "x", ";">>,
      <<"x", "=", "9", ";">>,
      <<"var", "y", "=", "7", ";", "print", "y", ";">>>>

Calling(G, L, A, q, b, top) ==
    LET decl == <<"fun", "f", "(", q, ")", "{">> \o Bodies(q)[b] \o <<"}">>
    IN  <<"var", "x", "=", G, ";">>
        \o (IF top THEN decl ELSE <<>>)
        \o <<"{", "var", "y", "=", L, ";">>
        \o (IF top THEN <<>> ELSE decl)
        \o <<"f", "(", A, ")", ";", "print", "y", ";", "}", "print", "x", ";">>

CallPrograms ==
    {Calling(G, L, A, q, b, top) :
        G \in {"1", "2"}, L \in {"3", "4"}, A \in {"5", "6"}, q \in {"x", "p"},
        b \in 1..7, top \in BOOLEAN}

\* A program that calls the value c, the value of g(), with three arguments:
\* the k-th is the undefined zz (none when k = 0), the others are n(1), n(2),
\* n(3), which print their argument.
Callees == {"f", "clock", "1", "nil", "true", "\"x\""}

Argument(i, k) == IF i = k THEN <<"zz">> ELSE <<"n", "(", NatToString(i), ")">>

Ordering(c, k) ==
    <<"fun", "n", "(", "v", ")", "{", "print", "v", ";", "return", "v", ";", "}",
      "fun", "f", "(", "a", ",", "b", ",", "c", ")", "{", "print", "\"body\"", ";", "}",
      "fun", "g", "(", ")", "{", "print", "\"callee\"", ";", "return", c, ";", "}",
      "g", "(", ")", "(">>
    \o Argument(1, k) \o <<",">> \o Argument(2, k) \o <<",">> \o Argument(3, k)
    \o <<")", ";">>

OrderPrograms == {Ordering(c, k) : c \in Callees, k \in 0..3}

\* A program that prints `l op r`, with f a user function.
Operators == {"+", "-", "*", "/", "<", "<=", ">", ">=", "==", "!="}
Operands == {"2", "\"x\"", "\"2\"", "true", "nil", "clock", "f"}

Operation(l, op, r) ==
    <<"fun", "f", "(", ")", "{", "}", "print", l, op, r, ";">>

HiTwo ==
    <<"var", "a", "=", "\"hi \"", ";", "var", "b", "=", "2", ";",
      "print", "a", "+", "b", ";">>

OperatorPrograms ==
    {Operation(l, op, r) : l, r \in Operands, op \in Operators} \cup {HiTwo}

\* An assignment statement: the left side l, `=`, the right side r.
Targets ==
    {<<"x">>, <<"1">>, <<"(", "x", ")">>, <<"f", "(", ")">>, <<"1", "+", "2">>,
     <<"x", "+", "1">>, <<"\"t\"">>, <<"-", "x">>}
Values_right ==
    {<<"2">>, <<"x", "+", "1">>, <<"(", "3", ")">>, <<"x", "=", "2">>,
     <<"f", "(", ")">>}
Assigning(l, r) ==
    <<"var", "x", "=", "1", ";", "fun", "f", "(", ")", "{", "}">>
    \o l \o <<"=">> \o r \o <<";", "print", "x", ";">>
AssignPrograms == {Assigning(l, r) : l \in Targets, r \in Values_right}

\* A declaration of f with n parameters and, in the body of g, a call of f
\* with m arguments.
Listed(w, n) ==
    IF n = 0 THEN <<>>
    ELSE [i \in 1..(2 * n - 1) |-> IF i % 2 = 1 THEN w ELSE ","]
Counting(n, m) ==
    <<"fun", "f", "(">> \o Listed("a", n) \o <<")", "{", "}">>
    \o <<"fun", "g", "(", ")", "{", "f", "(">> \o Listed("1", m)
    \o <<")", ";", "}">>
Counts == {0, 1, MaxArgs - 1, MaxArgs, MaxArgs + 1, MaxArgs + 2}
CountPrograms == {Counting(n, m) : n \in Counts, m \in Counts}

\* The body k of a callee f(a) that returns, the caller c of f, and the
\* program: the caller at the top level or as the body of g.
CalleeBody(k) ==
    << <<"return", "a", ";">>,
       <<"{", "{", "return", "a", ";", "}", "}", "print", "\"no\"", ";">>,
       <<"while", "(", "true", ")", "{", "return", "a", ";", "}",
         "print", "\"no\"", ";">>,
       <<"if", "(", "true", ")", "return", "a", ";", "print", "\"no\"", ";">>,
       <<"return", ";">>,
       <<"print", "h", "(", "a", ")", ";", "print", "\"body\"", ";",
         "return", "a", ";">> >>[k]
Caller(c) ==
    << <<"print", "f", "(", "1", ")", ";", "print", "\"post\"", ";">>,
       <<"{", "print", "f", "(", "1", ")", ";", "print", "\"pre\"", ";", "}",
         "print", "\"post\"", ";">>,
       <<"var", "i", "=", "1", ";", "while", "(", "i", "<", "3", ")", "{",
         "print", "f", "(", "i", ")", ";", "i", "=", "i", "+", "1", ";", "}",
         "print", "\"post\"", ";">> >>[c]
Returning(k, c, top) ==
    <<"fun", "h", "(", "b", ")", "{", "return", "b", ";", "}">>
    \o <<"fun", "f", "(", "a", ")", "{">> \o CalleeBody(k) \o <<"}">>
    \o (IF top THEN Caller(c)
        ELSE <<"fun", "g", "(", ")", "{">> \o Caller(c)
             \o <<"return", "\"callee\"", ";", "}", "print", "g", "(", ")", ";">>)
ReturnPrograms == {Returning(k, c, top) : k \in 1..6, c \in 1..3, top \in BOOLEAN}

Scripts ==
    CallPrograms \cup OrderPrograms \cup OperatorPrograms \cup AssignPrograms
    \cup CountPrograms \cup ReturnPrograms

ProgInit ==
    /\ envs = InterpreterNew.envs
    /\ environment = InterpreterNew.environment
    /\ input \in Scripts
    /\ out = <<>>
    /\ last = OkUnit
    /\ scanner = ScannerNew(<<>>)
    /\ scanned = ScanNone

\* Lox::run on the program, once.
RunProgram ==
    /\ envs = InterpreterNew.envs
    /\ out = <<>>
    /\ last = OkUnit
    /\ \E clk \in Clocks : Run(input, clk)

ProgSpec == ProgInit /\ [][RunProgram]_vars

(***************************************************************************)
(* Properties of the interpreter, checked on the states the prompt loop    *)
(* reaches.                                                                *)
(***************************************************************************)
\* The statements Parser::parse makes of the lexemes ws.
Statements(ws) == parse(ParserNew(Tokens(ws))).value

\* The names bound along the chain that starts at e.
Visible(h, e) == UNION {DOMAIN h[k].values : k \in Chain(h, e)}

\* The environments of the chain from e that bind name, and the nearest one.
Binders(h, e, name) == {k \in Chain(h, e) : name \in DOMAIN h[k].values}
Nearest(h, e, name) ==
    CHOOSE k \in Binders(h, e, name) : Binders(h, e, name) \subseteq Chain(h, k)

\* The heap h with one more environment, enclosed by e, that binds name.
Nested(h, e, name, value) ==
    define(Append(h, EnvironmentNew(e)), Len(h) + 1, name, value)

\* The interpreter at the prompt, and inside a block that declared b.
AtPrompt == StateOf(envs, environment, <<7, 7>>)
InBlock ==
    StateOf(Nested(envs, environment, "b", LNumber(5)), Len(envs) + 1, <<7, 7>>)

\* Blocks that complete, fail, and are left by a return.
BlockDone == <<"{", "var", "b", "=", "2", ";", "print", "b", ";", "}">>
BlockAssign ==
    <<"{", "var", "c", "=", "2", ";", "fun", "g", "(", ")", "{", "return", "c", ";", "}",
      "b", "=", "c", ";", "print", "b", ";", "}">>
C1_Blocks ==
    {Statements(BlockDone)[1], Statements(BlockAssign)[1],
     Statements(BlockError)[1], Statements(BlockReturn)[1]}

\* C1: whichever way a block ends (its statements complete, one raises a
\* runtime error, or a return passes through it), the current environment
\* after the block is the one that was current before it, and the names
\* visible from it are the same as before.
C1_BlockRestoresEnvironment ==
    \A b \in C1_Blocks, st \in {AtPrompt, InBlock} :
        LET x == execute(b, st, MaxFuel)
        IN  /\ x.r.tag \in {"Ok", "RuntimeErrorBreak", "ReturnBreak"}
            /\ x.st.environment = st.environment
            /\ Len(x.st.envs) = Len(st.envs)
            /\ \A k \in DOMAIN st.envs :
                   /\ x.st.envs[k].enclosing = st.envs[k].enclosing
                   /\ DOMAIN x.st.envs[k].values = DOMAIN st.envs[k].values
            /\ Visible(x.st.envs, x.st.environment) = Visible(st.envs, st.environment)

\* A block that declared b and printed it failed on an undefined variable:
\* the prompt is back in globals, where b is not bound.
C1_Witness ==
    /\ input = BlockError
    /\ last.tag = "RuntimeErrorBreak"
    /\ out = <<"2">>
    /\ environment = globals
    /\ "b" \notin Visible(envs, environment)

\* C2: a function declared inside another function keeps the variables of
\* the scope it was declared in: the counter that make() returns prints 1 and
\* then 2.
C2_ClosureCounts == input = Closure => (last = OkUnit /\ out = <<"1", "2">>)

\* The operands of the logical expressions, as Parser::parse makes them.
Operand(ws) == Statements(ws \o <<";">>)[1].expr
Truthy == {Operand(<<"true">>), Operand(<<"0">>), Operand(<<"\"x\"">>)}
Falsy == {Operand(<<"false">>), Operand(<<"nil">>)}

\* C3: when the left operand of `or` is falsy the expression has the value of
\* the right operand, so `if (nil or "x") print "t"; else print "f";` prints t.
C3_OrYieldsRight ==
    /\ \A l \in Falsy, r \in Truthy \cup Falsy :
           eval_logic(LogicExpr(l, Lexeme("or", 1), r), AtPrompt, MaxFuel).r
               = Ok(r.lit)
    /\ input = NilOrX => out = <<"t">>

\* Right operands whose evaluation would show: an assignment, an undefined
\* variable, a call of clock.
Skipped ==
    {Operand(<<"a", "=", "9">>), Operand(<<"zz">>), Operand(<<"clock", "(", ")">>)}

\* C4: the right operand S is never evaluated when `P or S` has a truthy P or
\* `P and S` has a falsy P: the expression has the value of P and the
\* interpreter is as the evaluation of P left it, although evaluating S would
\* have changed the interpreter or raised an error.
C4_ShortCircuit ==
    \A s \in Skipped :
        /\ ~IsOk(evaluate(s, AtPrompt, MaxFuel).r)
           \/ evaluate(s, AtPrompt, MaxFuel).st # AtPrompt
        /\ \A p \in Truthy :
               eval_logic(LogicExpr(p, Lexeme("or", 1), s), AtPrompt, MaxFuel)
                   = [st |-> AtPrompt, r |-> Ok(p.lit)]
        /\ \A p \in Falsy :
               eval_logic(LogicExpr(p, Lexeme("and", 1), s), AtPrompt, MaxFuel)
                   = [st |-> AtPrompt, r |-> Ok(p.lit)]

\* `true or zz` and `false and zz` were printed without an error about zz.
C4_Witness ==
    /\ input = ShortCircuit
    /\ last = OkUnit
    /\ out = <<"true", "false">>

\* Heaps with chains of one to three environments above the globals of the
\* prompt: b declared in a block, a or b declared again in a block inside it,
\* and a declared in a block beside it.
InB == Nested(envs, globals, "b", LNumber(5))
Heaps ==
    {envs, InB, Nested(InB, Len(InB), "a", LNumber(6)),
     Nested(InB, Len(InB), "b", LNumber(7)), Nested(InB, globals, "a", LNumber(6))}
Names == {"a", "b", "zz", "clock"}

\* C5: assign never creates a binding.  If an environment of the chain binds
\* the name, the nearest such binding becomes the value and every other
\* binding of every environment is unchanged; otherwise assign fails.  Either
\* way each environment binds the same names, and has the same enclosing
\* environment, as before.
C5_AssignNearest ==
    \A h \in Heaps : \A e \in DOMAIN h, name \in Names :
        LET x == assign(h, e, Lexeme(name, 1), LNumber(9))
        IN  /\ Len(x.h) = Len(h)
            /\ \A k \in DOMAIN h :
                   /\ x.h[k].enclosing = h[k].enclosing
                   /\ DOMAIN x.h[k].values = DOMAIN h[k].values
            /\ IF Binders(h, e, name) # {}
               THEN /\ x.r = OkUnit
                    /\ x.h = [h EXCEPT ![Nearest(h, e, name)].values[name] = LNumber(9)]
               ELSE ~IsOk(x.r)

\* `a = 2;` at the prompt changed the a of globals.
C5_Witness ==
    /\ input = AssignA
    /\ last = OkUnit
    /\ "a" \in DOMAIN envs[globals].values
    /\ envs[globals].values["a"] = LNumber(2)

\* A program that declares x, and declares and assigns x again in a block.
ShadowX ==
    <<"var", "x", "=", "1", ";",
      "{", "var", "x", "=", "3", ";", "print", "x", ";", "x", "=", "4", ";",
      "print", "x", ";", "}", "print", "x", ";">>

\* C6: define creates or overwrites the binding of the name in the current
\* environment and changes no other environment.  Hence shadowing: a block
\* that declares x again reads its own x, also after assigning to it, and
\* after the block x has the value it had before.
C6_DefineCurrent ==
    /\ \A h \in Heaps : \A e \in DOMAIN h, name \in Names :
           LET d == define(h, e, name, LNumber(9))
           IN  /\ Len(d) = Len(h)
               /\ d[e].enclosing = h[e].enclosing
               /\ DOMAIN d[e].values = DOMAIN h[e].values \cup {name}
               /\ d[e].values[name] = LNumber(9)
               /\ \A n \in DOMAIN h[e].values \ {name} : d[e].values[n] = h[e].values[n]
               /\ \A k \in DOMAIN h \ {e} : d[k] = h[k]
    /\ LET x == interpret(Statements(ShadowX), 1, AtPrompt, MaxFuel)
       IN  /\ x.r = OkUnit
           /\ x.st.out = <<"3", "4", "1">>
           /\ x.st.envs = define(envs, globals, "x", LNumber(1))

\* The block declared its own a and assigned to it; the a of globals, which
\* `a = 2;` had set, was printed after the block.
C6_Witness ==
    /\ input = Shadowing
    /\ last = OkUnit
    /\ out = <<"3", "4", "2">>
    /\ envs[globals].values["a"] = LNumber(2)

\* C7: get succeeds exactly when an environment of the chain binds the name,
\* with the value of the nearest binding; otherwise it fails with the error
\* "Undefined variable".  A failed get and a failed assign leave every
\* environment as it was.
C7_GetNearest ==
    \A h \in Heaps : \A e \in DOMAIN h, name \in Names :
        LET g == get(h, e, Lexeme(name, 1))
            undefined ==
                RuntimeError(Lexeme(name, 1), "Undefined variable '" \o name \o "'.")
            st == StateOf(h, e, <<7, 7>>)
        IN  IF name \in Visible(h, e)
            THEN g = Ok(h[Nearest(h, e, name)].values[name])
            ELSE /\ g = [tag |-> "Err", re |-> undefined]
                 /\ eval_var(VarExpr(Lexeme(name, 1)), st)
                        = [st |-> st, r |-> RuntimeErrorBreak(undefined)]
                 /\ assign(h, e, Lexeme(name, 1), LNumber(9))
                        = [h |-> h, r |-> RuntimeErrorBreak(undefined)]
                 /\ eval_assign(Operand(<<name, "=", "9">>), st, MaxFuel)
                        = [st |-> st, r |-> RuntimeErrorBreak(undefined)]

\* Inside the block a was read twice; after it a is bound nowhere, the read
\* failed, and globals still does not bind a.
C7_Witness ==
    /\ input = Shadowing
    /\ out = <<"3", "4">>
    /\ last.tag = "RuntimeErrorBreak"
    /\ last.re.message = "Undefined variable 'a'."
    /\ "a" \notin DOMAIN envs[globals].values

\* globals binds clock to the native function.
ClockIsNative ==
    /\ "clock" \in DOMAIN envs[globals].values
    /\ envs[globals].values["clock"] = LNativeFunc("Clock")

\* C8 as stated: in every reachable state, also after programs that declare
\* or assign clock at top level, globals binds clock to the native clock
\* function.
C8_ClockAlwaysNative == ClockIsNative

\* C8, amended: globals always binds clock; the binding is the native clock
\* function when the interpreter is created and after every program other
\* than one that declares or assigns clock at top level, which rebinds it
\* like any other global.
C8_ClockNativeUntilRebound ==
    /\ ClockIsNative
    /\ []("clock" \in DOMAIN envs[globals].values)
    /\ [][(ClockIsNative /\ input' \notin {VarClock, AssignClock}) => ClockIsNative']_vars

\* `var clock = 1;` at the prompt has replaced the native function.
C8_Witness ==
    /\ input = VarClock
    /\ last = OkUnit
    /\ envs[globals].values["clock"] = LNumber(1)

\* for statements: every clause present, with an expression as initialiser,
\* and without initialiser, increment, condition, or any clause.
ForAll ==
    <<"for", "(", "var", "i", "=", "0", ";", "i", "<", "2", ";", "i", "=", "i", "+", "1", ")",
      "print", "i", ";">>
ForExpr ==
    <<"for", "(", "a", "=", "1", ";", "a", "<", "2", ";", "a", "=", "a", "+", "1", ")",
      "print", "a", ";">>
ForNoInit ==
    <<"for", "(", ";", "a", "<", "3", ";", "a", "=", "a", "+", "1", ")", "print", "a", ";">>
ForNoInc ==
    <<"for", "(", "var", "i", "=", "0", ";", "i", "<", "1", ";", ")", "i", "=", "i", "+", "1", ";">>
ForNoCond ==
    <<"for", "(", "var", "i", "=", "0", ";", ";", "i", "=", "i", "+", "1", ")",
      "print", "zz", ";">>
ForNone == <<"for", "(", ";", ";", ")", "print", "zz", ";">>

\* The block { init while (cond) { body inc; } } of the lexemes given.
AsWhile(init, cond, body, inc) ==
    <<"{">> \o init \o <<"while", "(">> \o cond \o <<")", "{">> \o body \o inc
        \o <<"}", "}">>

\* Each for statement, parsed, with the parsed block and while statement that
\* has the same clauses (true for no condition).
ForAndWhile ==
    {<<Statements(ForAll),
       Statements(AsWhile(<<"var", "i", "=", "0", ";">>, <<"i", "<", "2">>,
                          <<"print", "i", ";">>, <<"i", "=", "i", "+", "1", ";">>))>>,
     <<Statements(ForExpr),
       Statements(AsWhile(<<"a", "=", "1", ";">>, <<"a", "<", "2">>,
                          <<"print", "a", ";">>, <<"a", "=", "a", "+", "1", ";">>))>>,
     <<Statements(ForNoInit),
       Statements(AsWhile(<<>>, <<"a", "<", "3">>,
                          <<"print", "a", ";">>, <<"a", "=", "a", "+", "1", ";">>))>>,
     <<Statements(ForNoInc),
       Statements(AsWhile(<<"var", "i", "=", "0", ";">>, <<"i", "<", "1">>,
                          <<"i", "=", "i", "+", "1", ";">>, <<>>))>>,
     <<Statements(ForNoCond),
       Statements(AsWhile(<<"var", "i", "=", "0", ";">>, <<"true">>,
                          <<"print", "zz", ";">>, <<"i", "=", "i", "+", "1", ";">>))>>,
     <<Statements(ForNone),
       Statements(AsWhile(<<>>, <<"true">>, <<"print", "zz", ";">>, <<>>))>>}

\* The kinds of the statements in the statement s.
RECURSIVE Kinds(_)
Kinds(s) ==
    {s.node} \cup
    CASE s.node \in {"BlockStmt", "FuncDeclStmt"} ->
             UNION {Kinds(IF s.node = "BlockStmt" THEN s.statements[i] ELSE s.stmts[i]) :
                      i \in 1..Len(IF s.node = "BlockStmt" THEN s.statements ELSE s.stmts)}
      [] s.node = "IfStmt" -> Kinds(s.then_branch) \cup Kinds(s.else_branch)
      [] s.node \in {"WhileStmt", "ForStmt"} -> Kinds(s.body)
      [] OTHER -> {}

\* The statements the parser makes of a for statement are those it makes of
\* block and while statements, and no ForStmt is among them.
ForIsBlockAndWhile ==
    /\ \A fw \in ForAndWhile :
           /\ Len(fw[1]) = 1
           /\ "WhileStmt" \in Kinds(fw[1][1])
           /\ "ForStmt" \notin Kinds(fw[1][1])
    /\ Statements(ForAll)
         = Statements(<<"{", "var", "i", "=", "0", ";", "while", "(", "i", "<", "2", ")",
                        "{", "print", "i", ";", "i", "=", "i", "+", "1", ";", "}", "}">>)
    /\ Statements(ForNoInit)
         = Statements(<<"while", "(", "a", "<", "3", ")",
                        "{", "print", "a", ";", "a", "=", "a", "+", "1", ";", "}">>)
    /\ Statements(ForNoInc)
         = Statements(<<"{", "var", "i", "=", "0", ";", "while", "(", "i", "<", "1", ")",
                        "i", "=", "i", "+", "1", ";", "}">>)
    /\ Statements(ForNone) = Statements(<<"while", "(", "true", ")", "print", "zz", ";">>)

\* C9: the parser makes block and while statements of a for statement, never
\* a node of its own, and interpreting them prints the same lines, leaves the
\* same environments and ends with the same Result as interpreting
\* { init while (cond) { body inc; } }, also without initialiser, condition
\* (then true) or increment; the variable the initialiser declares is bound
\* nowhere after the loop.
C9_ForAsWhile ==
    /\ ForIsBlockAndWhile
    /\ \A fw \in ForAndWhile :
           LET x == interpret(fw[1], 1, AtPrompt, MaxFuel)
           IN  /\ x.r.tag \in {"Ok", "RuntimeErrorBreak"}
               /\ x = interpret(fw[2], 1, AtPrompt, MaxFuel)
    /\ LET x == interpret(Statements(ForAll), 1, AtPrompt, MaxFuel)
       IN  /\ x.r = OkUnit
           /\ x.st.out = <<"0", "1">>
           /\ x.st.envs = envs
           /\ x.st.environment = environment

\* The loop printed 0 and 1; the `print i;` after it failed.
C9_Witness ==
    /\ input = ForLoop
    /\ out = <<"0", "1">>
    /\ last.tag = "RuntimeErrorBreak"
    /\ last.re.message = "Undefined variable 'i'."
    /\ "i" \notin Visible(envs, environment)

\* Functions whose body returns from inside a block in a while loop in an if
\* statement or, with a falsy argument, from its end; returns twice; has no
\* return; and fails.
Functions ==
    Statements(
      <<"fun", "g", "(", "p", ")", "{", "print", "\"pre\"", ";",
          "if", "(", "p", ")", "{", "while", "(", "true", ")", "{",
              "{", "return", "1", ";", "}", "print", "\"no\"", ";", "}",
            "print", "\"no\"", ";", "}",
          "print", "\"post\"", ";", "return", "2", ";", "print", "\"no\"", ";", "}",
        "fun", "r", "(", ")", "{", "return", "1", ";", "return", "2", ";", "}",
        "fun", "h", "(", "p", ",", "q", ")", "{", "print", "p", ";", "q", "=", "p", ";", "}",
        "fun", "e", "(", ")", "{", "print", "\"pre\"", ";", "zz", ";",
          "print", "\"no\"", ";", "}">>)

\* C10: a call of a user function yields the value of the first return its
\* body executes, at any depth of blocks, ifs and loops, and executes no
\* statement after it; it yields the runtime error the body raises; otherwise
\* it yields nil.  In each case the current environment, and every
\* environment there was, is after the call as before it.
C10_CallResult ==
    \A st \in {AtPrompt, InBlock} :
        LET after(lines) == [st EXCEPT !.out = lines]
        IN  /\ Function_call(Functions[1], st, <<LBool(TRUE)>>, MaxFuel)
                 = [st |-> after(<<"pre">>), r |-> Ok(LNumber(1))]
            /\ Function_call(Functions[1], st, <<LNull>>, MaxFuel)
                 = [st |-> after(<<"pre", "post">>), r |-> Ok(LNumber(2))]
            /\ Function_call(Functions[2], st, <<>>, MaxFuel)
                 = [st |-> st, r |-> Ok(LNumber(1))]
            /\ Function_call(Functions[3], st, <<LString("x"), LNull>>, MaxFuel)
                 = [st |-> after(<<"x">>), r |-> Ok(LNull)]
            /\ Function_call(Functions[4], st, <<>>, MaxFuel)
                 = [st |-> after(<<"pre">>),
                    r |-> RuntimeErrorBreak(
                              RuntimeError(Lexeme("zz", 1), "Undefined variable 'zz'."))]

\* f(true) returned 1 from its if statement; f(false) printed post and
\* returned nil.
C10_Witness ==
    /\ input = Returns
    /\ last = OkUnit
    /\ out = <<"1", "post", "nil">>
    /\ environment = globals

\* The interpreter at the prompt after `fun g(p) ...` and `fun h(p, q) ...`.
WithFunctions ==
    StateOf(define(define(envs, globals, "g", LFunc(Functions[1])),
                   globals, "h", LFunc(Functions[3])),
            globals, <<7, 7>>)

\* The RuntimeError of a call, at its closing parenthesis.
CallError(message) == RuntimeErrorBreak(RuntimeError(Lexeme(")", 1), message))

\* C11: the call of a value that is not a function fails with "Can only call
\* functions and classes"; the call of a user function or of clock with a
\* number of arguments other than its arity fails with "Expected n arguments
\* but got m" at the closing parenthesis of the call, and then the interpreter
\* is as the evaluation of the arguments left it: no statement of the body
\* has run and no environment was created or changed by the call.
C11_CallChecks ==
    LET st == WithFunctions
        calling(ws) == eval_call(Operand(ws), st, MaxFuel)
        fails(ws, message) == calling(ws) = [st |-> st, r |-> CallError(message)]
    IN  /\ \A c \in {"nil", "true", "1", "\"x\""} :
               /\ fails(<<c, "(", ")">>, "Can only call functions and classes")
               /\ fails(<<c, "(", "1", ")">>, "Can only call functions and classes")
        /\ fails(<<"g", "(", ")">>, "Expected 1 arguments but got 0")
        /\ fails(<<"g", "(", "1", ",", "2", ")">>, "Expected 1 arguments but got 2")
        /\ fails(<<"h", "(", "1", ")">>, "Expected 2 arguments but got 1")
        /\ envs[globals].values["clock"] = LNativeFunc("Clock")
               => /\ fails(<<"clock", "(", "1", ")">>, "Expected 0 arguments but got 1")
                  /\ fails(<<"clock", "(", "1", ",", "2", ")">>,
                           "Expected 0 arguments but got 2")
        /\ LET x == calling(<<"g", "(", "h", "=", "1", ",", "2", ")">>)
           IN  /\ x.r = CallError("Expected 1 arguments but got 2")
               /\ x.st = evaluate(Operand(<<"h", "=", "1">>), st, MaxFuel).st

\* clock is the native function and `clock(1)` failed on its arity.
C11_Witness ==
    /\ input = ClockOfOne
    /\ ClockIsNative
    /\ out = <<>>
    /\ last = CallError("Expected 0 arguments but got 1")

\* Numbers to divide, and to divide by: both zeros, integers, a fraction.
Dividends ==
    {LNumber(0), Frac(0, 1, TRUE), LNumber(1), LNumber(-3), LNumber(6), Frac(1, 2, FALSE)}
Divisors ==
    {LNumber(0), Frac(0, 1, TRUE), LNumber(1), LNumber(-1), LNumber(2), Frac(1, 2, FALSE)}

DivisionByZero == TypeError(Lexeme("/", 1), "Attempted division by zero")

\* C12: for numbers a and b, a / b fails with "Attempted division by zero" at
\* the `/` when b is zero (of either sign) and is otherwise the number q with
\* q * b = a; so `print 1 / 0;` prints nothing and ends with that error.
C12_Division ==
    /\ \A a \in Dividends, b \in Divisors :
           LET q == binary_match(a, Lexeme("/", 1), b)
           IN  IF b.num = 0 THEN q = DivisionByZero
               ELSE /\ q.tag = "Ok"
                    /\ q.value.kind = "Number"
                    /\ q.value.num * b.num * a.den = a.num * b.den * q.value.den
    /\ \A ws \in {<<"1", "/", "0">>, <<"0", "/", "0">>, <<"6", "/", "(", "1", "-", "1", ")">>,
                  <<"6", "/", "-", "0">>} :
           eval_binary(Operand(ws), AtPrompt, MaxFuel) = [st |-> AtPrompt, r |-> DivisionByZero]
    /\ eval_binary(Operand(<<"6", "/", "-", "2">>), AtPrompt, MaxFuel)
           = [st |-> AtPrompt, r |-> Ok(LNumber(-3))]

\* `print 1 / 0;` printed nothing and failed.
C12_Witness ==
    /\ input = OneByZero
    /\ out = <<>>
    /\ last = DivisionByZero

\* Values of every kind.
Values ==
    {LNull, LBool(TRUE), LBool(FALSE), LNumber(0), LNumber(1), Frac(1, 2, FALSE),
     Frac(0, 1, TRUE), Lexeme(Huge, 1).literal,
     binary_match(Lexeme(Huge, 1).literal, Lexeme("-", 1), Lexeme(Huge, 1).literal).value,
     LString(""), LString("x"), LString("1"), LString("0.5"), LString("NaN"),
     LFunc(Functions[1]), LFunc(Functions[2]), LNativeFunc("Clock")}

\* C13: `!x` is the boolean true when x is false or nil and the boolean false
\* for every other value x; it is never nil and never an error.  So
\* `print !nil;` prints true.
C13_BangTotal ==
    /\ \A x \in Values :
           unary_match(Lexeme("!", 1), x) = Ok(LBool(~is_truthy(x)))
    /\ interpret(Statements(<<"print", "!", "nil", ";">>), 1, AtPrompt, MaxFuel).st.out
           = <<"true">>

\* The value of `a == b` and of `a != b`.
Equal(a, b) == binary_match(a, Lexeme("==", 1), b)
Unequal(a, b) == binary_match(a, Lexeme("!=", 1), b)

\* `==` on two values of different kinds, on two values of one kind, and its
\* relation to `!=` and to the exchange of the operands.
EqualityRules ==
    \A a, b \in Values :
        /\ Equal(a, b).tag = "Ok" /\ Equal(a, b).value.kind = "Bool"
        /\ Unequal(a, b) = Ok(LBool(~Equal(a, b).value.b))
        /\ Equal(a, b) = Equal(b, a)
        /\ a.kind = "Null" /\ b.kind = "Null" => Equal(a, b) = Ok(LBool(TRUE))
        /\ (a.kind = "Null") # (b.kind = "Null") => Equal(a, b) = Ok(LBool(FALSE))
        /\ a.kind = "Number" /\ b.kind = "String"
             => Equal(a, b) = Ok(LBool(NumToString(a) = b.str))
        /\ a.kind # b.kind /\ {a.kind, b.kind} # {"Number", "String"}
             => Equal(a, b) = Ok(LBool(FALSE))
        /\ a.kind = b.kind /\ a.kind # "Number" => Equal(a, b) = Ok(LBool(a = b))
        /\ a.kind = "Number" /\ b.kind = "Number"
             => Equal(a, b) = Ok(LBool(NumEq(a, b)))

\* C14 as stated: `nil == nil` is true; nil and a value that is not nil are
\* unequal in either order; a number and a string are equal exactly when the
\* number's rendering is the string; values of other different kinds are
\* unequal; values of one kind are compared by value; `a != b` is the negation
\* of `a == b`; `==` is symmetric; and `v == v` is true for every value v.
EqualToItself == \A v \in Values : Equal(v, v) = Ok(LBool(TRUE))

C14_Equality ==
    /\ EqualityRules
    /\ EqualToItself
    /\ input = NaNIsNaN => last.tag = "Ok" /\ out = <<"true">>

\* C14 amended: as above, but `v == v` is true for every value v except the
\* number NaN, which is unequal to itself: the difference of two infinities
\* is not equal to itself.
EqualToItselfButNaN ==
    /\ \A v \in Values :
           Equal(v, v) = Ok(LBool(~(v.kind = "Number" /\ IsNaN(v))))
    /\ \E v \in Values : v.kind = "Number" /\ IsNaN(v)

C14_EqualityButNaN ==
    /\ EqualityRules
    /\ EqualToItselfButNaN
    /\ input = OneIsOne => last.tag = "Ok" /\ out = <<"true">>
    /\ input = NaNIsNaN => last.tag = "Ok" /\ out = <<"false">>

C14_Witness == input = NaNIsNaN /\ last.tag = "Ok" /\ out = <<"false">>

\* The scan has ended in one of the two ways of a Result: with the tokens,
\* the last of them the only Eof, or with a LoxError that carries the line
\* of the scanner.
ScanResult ==
    /\ scanned.tag \in {"None", "Ok", "Err"}
    /\ scanned.tag = "Ok" =>
         /\ scanner.tokens # <<>>
         /\ \A i \in 1..Len(scanner.tokens) :
                (scanner.tokens[i].ttype = "Eof") = (i = Len(scanner.tokens))
    /\ scanned.tag = "Err" =>
         /\ scanned.err.line = scanner.line
         /\ scanned.err.message \in {"Unexpected character.", "Unterminated string.",
                                     "Unclosed block comment."}

\* A turn of the scan starts where the turn before stopped, and the token it
\* adds, if any, has the text between start and current as its lexeme.
ScanLexeme ==
    scanned' # ScanOk =>
        /\ scanner'.start = scanner.current
        /\ scanner'.current > scanner.start
        /\ \/ scanner'.tokens = scanner.tokens
           \/ /\ Len(scanner'.tokens) = Len(scanner.tokens) + 1
              /\ SubSeq(scanner'.tokens, 1, Len(scanner.tokens)) = scanner.tokens
              /\ scanner'.current <= Len(scanner.source)
              /\ scanner'.tokens[Len(scanner'.tokens)].lexeme
                   = Concat(SubSeq(scanner.source, scanner'.start + 1,
                                   scanner'.current))

\* C15: for every source text scan_tokens either succeeds with the tokens in
\* source order, the last of them the end-of-file token and no other token an
\* end-of-file token, each token's lexeme being the text between start and
\* current it was scanned from, or fails with a lexical error that carries the
\* current line and returns no tokens.
C15_ScanTokens == []ScanResult /\ [][ScanLexeme]_vars

\* The scan of the text of the lexemes ws, character by character, ends as
\* the scan of the lexemes does.
AsSpelled(ws) ==
    LET x == scan_tokens(ScannerNew(Chars(Spell(ws))))
    IN  IF x.r.tag = "Ok" THEN ScanLexemes(ws) = [tag |-> "Ok", tokens |-> x.sc.tokens]
        ELSE ScanLexemes(ws) = x.r

SourcesAsSpelled == \A ws \in Sources : AsSpelled(ws)

\* The source texts with a scan error or a parse error, each after statements
\* that would print or change a global.
Erroneous == {BadCharacter, OpenString, NoName, NoOperand}

\* C16: when the scan or the parse of a source text reports an error, no
\* statement of the text is executed: the run prints nothing and leaves the
\* globals, and every environment, as they were.
C16_ErrorRunsNothing ==
    [][/\ SourcesAsSpelled
       /\ input' \in Erroneous => last'.tag = "Err"
       /\ last'.tag = "Err" =>
            /\ input' \in Erroneous
            /\ out' = <<>>
            /\ envs' = envs
            /\ environment' = environment]_vars

C16_Witness ==
    /\ input = NoOperand
    /\ last.tag = "Err"
    /\ out = <<>>
    /\ "a" \in DOMAIN envs[globals].values
    /\ envs[globals].values["a"] = LNumber(1)

\* The programs that fail in the middle, as statements.
Failing == {Statements(MidError), Statements(TopReturn)}

\* interpret of the statements from st is interpret of the first k of them
\* when that fails, and otherwise interpret of the others from where the
\* first k ended.
StopsAtFirst(stmts, st) ==
    \A k \in 0..Len(stmts) :
        LET first == interpret(SubSeq(stmts, 1, k), 1, st, MaxFuel)
        IN  interpret(stmts, 1, st, MaxFuel)
              = IF first.r = OkUnit
                THEN interpret(SubSeq(stmts, k + 1, Len(stmts)), 1, first.st, MaxFuel)
                ELSE first

\* C17: interpret executes the top-level statements in order and stops at the
\* first one that ends in a runtime error or in a return; the statements after
\* it are not executed, the error or return is the Result of the run, and what
\* the statements before it printed, defined and assigned is kept.
C17_RuntimeErrorAborts ==
    /\ \A stmts \in Failing : StopsAtFirst(stmts, StateOf(envs, environment, <<7, 7>>))
    /\ input = MidError =>
         /\ last = RuntimeErrorBreak(RuntimeError(Lexeme("zz", 1),
                                                  "Undefined variable 'zz'."))
         /\ out = <<"2">>
         /\ envs[globals].values["a"] = LNumber(2)
    /\ input = TopReturn =>
         /\ last \in {ReturnBreak(LNumber(2)),
                      RuntimeErrorBreak(RuntimeError(Lexeme("a", 1),
                                                     "Undefined variable 'a'."))}
         /\ last.tag = "ReturnBreak" =>
              out = <<"pre">> /\ envs[globals].values["a"] = LNumber(2)
         /\ last.tag = "RuntimeErrorBreak" =>
              out = <<>> /\ "a" \notin DOMAIN envs[globals].values

C17_Witness ==
    /\ input = MidError
    /\ last.tag = "RuntimeErrorBreak"
    /\ out = <<"2">>
    /\ envs[globals].values["a"] = LNumber(2)

\* The statements of `fun f() {} print f;`.
PrintF == Statements(<<"fun", "f", "(", ")", "{", "}", "print", "f", ";">>)

\* C18: print renders a string as its characters, a boolean as true or false,
\* nil as nil, a native function as <native fn>, and a user function declared
\* with the name NAME as <fn NAME>.
C18_Rendering ==
    /\ \A s \in {"", "x", "a b", "1"} : as_string(LString(s)) = s
    /\ as_string(LBool(TRUE)) = "true"
    /\ as_string(LBool(FALSE)) = "false"
    /\ as_string(LNull) = "nil"
    /\ as_string(LNativeFunc("Clock")) = "<native fn>"
    /\ \A i \in 1..Len(Functions) :
           as_string(LFunc(Functions[i])) = "<fn " \o Functions[i].name.lexeme \o ">"
    /\ interpret(PrintF, 1, AtPrompt, MaxFuel).st.out = <<"<fn f>">>

\* Source texts with two syntax errors: the first in a statement, in a
\* variable declaration and in a function declaration.
TwoErrors ==
    {<<"print", ";", "print", "1", ";", "print", ";">>,
     <<"var", "=", "1", ";", "print", "1", ";", "print", ";">>,
     <<"fun", "(", ")", "{", "}", "print", "1", ";", "print", ";">>}

\* The parser is where synchronise leaves it.
Synchronised(p) ==
    \/ is_at_end(p)
    \/ p.current > 0 /\ previous(p).ttype = "Semicolon"
    \/ peek(p).ttype \in {"Class", "Fun", "Var", "For", "If", "While", "Print",
                          "Return"}

\* C19: on a parse error in a statement, a variable declaration or a function
\* declaration the parser synchronises (it advances one token and discards
\* tokens until the previous one is `;` or the next one starts a statement),
\* abandons the statement and goes on with the next declaration, so that it
\* reaches the later syntax error of the same text as well.
C19_Synchronises ==
    /\ \A ws \in TwoErrors :
           LET r == parse(ParserNew(Tokens(ws)))
               first == declaration(ParserNew(Tokens(ws)))
           IN  /\ ~r.ok
               /\ ~first.ok
               /\ Synchronised(first.p)
               /\ r.p.current >= Len(ws) - 1
    /\ input \in {NoName, NoOperand} => last.tag = "Err"

\* The level of a binary operator in the grammar: the higher binds tighter.
Level(op) ==
    CASE op \in {"*", "/"} -> 6
      [] op \in {"+", "-"} -> 5
      [] op \in {">", ">=", "<", "<="} -> 4
      [] op \in {"==", "!="} -> 3
      [] op = "and" -> 2
      [] op = "or" -> 1

\* The places of the lexemes ws that hold a binary operator: an operator
\* that follows an operand.
BinaryAt(ws) ==
    {i \in 2..Len(ws) :
        ws[i] \in BinaryOperators /\ ws[i - 1] \notin BinaryOperators \cup {"!", "="}}

\* The tree the grammar dictates for the expression ws: an assignment has the
\* whole rest as its value; otherwise the root is the last of the binary
\* operators of the lowest level; a unary operator applies to the operand
\* that follows it.
RECURSIVE Tree(_)
Tree(ws) ==
    IF Len(ws) >= 2 /\ ws[2] = "="
    THEN AssignExpr(Lexeme(ws[1], 1), Tree(SubSeq(ws, 3, Len(ws))))
    ELSE IF BinaryAt(ws) # {}
    THEN LET lowest == CHOOSE l \in 1..6 :
                           /\ \E i \in BinaryAt(ws) : Level(ws[i]) = l
                           /\ \A i \in BinaryAt(ws) : Level(ws[i]) >= l
             k == CHOOSE i \in BinaryAt(ws) :
                      /\ Level(ws[i]) = lowest
                      /\ \A j \in BinaryAt(ws) : Level(ws[j]) = lowest => j <= i
             left == Tree(SubSeq(ws, 1, k - 1))
             right == Tree(SubSeq(ws, k + 1, Len(ws)))
         IN  IF ws[k] \in {"and", "or"}
             THEN LogicExpr(left, Lexeme(ws[k], 1), right)
             ELSE BinaryExpr(left, Lexeme(ws[k], 1), right)
    ELSE IF ws[1] \in {"-", "!"}
    THEN UnaryExpr(Lexeme(ws[1], 1), Tree(Tail(ws)))
    ELSE IF Lexeme(ws[1], 1).ttype = "Identifier" THEN VarExpr(Lexeme(ws[1], 1))
    ELSE LitExpr(Lexeme(ws[1], 1).literal)

\* The text has been run.
Printed == out # <<>> \/ last # OkUnit

\* C20: the parser gives every expression built with the binary operators
\* the tree the grammar dictates: `*` and `/` bind tighter than `+` and `-`,
\* these tighter than the comparisons, these tighter than `==` and `!=`, then
\* `and`, then `or`, then assignment; `!` and `-` in front of an operand bind
\* tighter than any binary operator; the operators of one level associate to
\* the left and assignment to the right.  So `print 1 + 2 * 3;` prints 7 and
\* `6 - 3 - 1` is 2.
C20_Precedence ==
    LET r == parse(ParserNew(Tokens(input)))
    IN  /\ r.ok
        /\ r.value = <<PrintStmt(Tree(SubSeq(input, 2, Len(input) - 1)))>>
        /\ Printed /\ input = <<"print", "1", "+", "2", "*", "3", ";">>
             => out = <<"7">> /\ last = OkUnit
        /\ Printed /\ input = <<"print", "6", "-", "3", "-", "1", ";">>
             => out = <<"2">> /\ last = OkUnit
        /\ Printed /\ input = <<"print", "8", "/", "4", "/", "2", ";">>
             => out = <<"1">> /\ last = OkUnit
        /\ Printed /\ input = <<"print", "-", "1", "-", "-", "2", ";">>
             => out = <<"1">> /\ last = OkUnit

C20_Witness ==
    /\ input = <<"print", "1", "+", "2", "*", "3", ";">>
    /\ out = <<"7">>
    /\ last = OkUnit

\* The program has been run.
Ran == envs # InterpreterNew.envs

UndefinedVariable(name) ==
    RuntimeErrorBreak(RuntimeError(Lexeme(name, 1),
                                   "Undefined variable '" \o name \o "'."))

\* What the program Calling(G, L, A, q, b, top) prints, its Result, and the
\* global x after it, when the body of f sees its parameter, its own locals
\* and the globals only.
CallingOut(G, L, A, q, b) ==
    CASE b = 1 -> <<A, L, G>>
      [] b = 2 -> <<"9", L, G>>
      [] b \in {3, 4} -> <<>>
      [] b = 5 -> <<IF q = "x" THEN A ELSE G, L, G>>
      [] b = 6 -> <<L, IF q = "x" THEN G ELSE "9">>
      [] b = 7 -> <<"7", L, G>>

CallingLast(b) == IF b \in {3, 4} THEN UndefinedVariable("y") ELSE OkUnit

CallingX(G, q, b) == IF b = 6 /\ q = "p" THEN "9" ELSE G

\* C21: a call of a user function executes the body in a new environment
\* whose parent is globals, whatever environment is current at the call and
\* at the declaration, with each parameter bound to its argument: the body
\* reads and assigns its parameters, its own locals and the globals only; the
\* locals of the caller's block are neither visible nor assignable, and an
\* assignment to a parameter leaves the global of the same name.
C21_CallInGlobals ==
    Ran =>
        \A G \in {"1", "2"}, L \in {"3", "4"}, A \in {"5", "6"}, q \in {"x", "p"},
           b \in 1..7, top \in BOOLEAN :
            input = Calling(G, L, A, q, b, top) =>
                /\ out = CallingOut(G, L, A, q, b)
                /\ last = CallingLast(b)
                /\ envs[globals].values["x"] = Lexeme(CallingX(G, q, b), 1).literal
                /\ environment = globals
                /\ Len(envs) = 1

C21_Witness ==
    /\ input = Calling("1", "3", "5", "x", 2, FALSE)
    /\ out = <<"9", "3", "1">>
    /\ envs[globals].values["x"] = LNumber(1)

\* What the arguments before the k-th print, all three when k = 0.
ArgumentsOut(k) ==
    IF k = 0 THEN <<"1", "2", "3">> ELSE [i \in 1..(k - 1) |-> NatToString(i)]

\* C22: a call evaluates the callee first, then the arguments from left to
\* right, and checks that the callee is callable and its arity only after all
\* arguments are evaluated; when an argument fails, the later arguments are not
\* evaluated, the callee is not called, and the call fails with the error of
\* that argument, whether the callee is a user function, a native function or
\* a value that is not callable.
C22_CallOrder ==
    Ran =>
        \A c \in Callees, k \in 0..3 :
            input = Ordering(c, k) =>
                /\ out = <<"callee">> \o ArgumentsOut(k)
                           \o (IF k = 0 /\ c = "f" THEN <<"body">> ELSE <<>>)
                /\ k > 0 => last = UndefinedVariable("zz")
                /\ k = 0 =>
                     last = CASE c = "f" -> OkUnit
                              [] c = "clock" -> CallError("Expected 0 arguments but got 3")
                              [] OTHER -> CallError("Can only call functions and classes")

\* The kind of the value of an operand, and the characters of a string or
\* the rendering of the number.
KindOf(w) ==
    CASE w = "2" -> "Number"
      [] w \in {"\"x\"", "\"2\""} -> "String"
      [] OTHER -> "Other"

TextOf(w) == IF KindOf(w) = "String" THEN Lexeme(w, 1).literal.str ELSE w

\* The Result and the output of `print l op r;` by the kinds of l and r,
\* which are not both numbers.
OperationLast(l, op, r) ==
    LET kinds == <<KindOf(l), KindOf(r)>>
        message ==
            CASE kinds = <<"String", "String">> -> "Invalid operator used with two strings"
              [] kinds = <<"String", "Number">> ->
                   "Invalid operator used with a string and a number"
              [] kinds = <<"Number", "String">> ->
                   "Invalid operator used with a number and a string"
              [] OTHER -> "Operands must be two numbers or two strings."
    IN  IF op \in {"==", "!="} \/ (op = "+" /\ "Other" \notin {kinds[1], kinds[2]})
        THEN OkUnit
        ELSE RuntimeErrorBreak(RuntimeError(Lexeme(op, 1), message))

OperationOut(l, op, r) ==
    LET equal == IF "Other" \in {KindOf(l), KindOf(r)} THEN l = r
                 ELSE TextOf(l) = TextOf(r)
    IN  CASE op = "==" -> <<IF equal THEN "true" ELSE "false">>
          [] op = "!=" -> <<IF equal THEN "false" ELSE "true">>
          [] op = "+" /\ "Other" \notin {KindOf(l), KindOf(r)} ->
               <<TextOf(l) \o TextOf(r)>>
          [] OTHER -> <<>>

\* C23: for a string and a number in either order `+` is the string joined
\* with the rendering of the number, in the order of the operands; for two
\* strings `+` joins them and `- * / < <= > >=` are type errors; for a string
\* and a number every operator but `+ == !=` is a type error; for every other
\* pair that is not two numbers only `==` and `!=` have a value, and every
\* other operator is the type error that carries the operator token.
C23_OperatorTable ==
    Ran =>
        /\ \A l, r \in Operands, op \in Operators :
               input = Operation(l, op, r)
               /\ <<KindOf(l), KindOf(r)>> # <<"Number", "Number">> =>
                   /\ last = OperationLast(l, op, r)
                   /\ out = OperationOut(l, op, r)
        /\ input = HiTwo => out = <<"hi 2">> /\ last = OkUnit

C23_Witness == input = HiTwo /\ out = <<"hi 2">> /\ last = OkUnit

\* The turn of the scan that is about to start is at `/*`.
AtBlockComment ==
    /\ scanned = ScanNone
    /\ scanner.current + 2 <= Len(scanner.source)
    /\ scanner.source[scanner.current + 1] = "/"
    /\ scanner.source[scanner.current + 2] = "*"

\* The places, counted as scanner.current is, right after a `*/` that follows
\* the `/*` at the current place.
Closings ==
    {e \in (scanner.current + 4)..Len(scanner.source) :
        scanner.source[e - 1] = "*" /\ scanner.source[e] = "/"}

\* C24: after `/*` the scanner skips every character up to and including the
\* first `*/` that follows, adds no token and goes on right after that `*/`;
\* when no `*/` follows it fails with the error of an unclosed block comment
\* and does not read past the end of the text.
C24_BlockComments ==
    [][AtBlockComment =>
         IF Closings # {}
         THEN /\ scanned' = ScanNone
              /\ scanner'.tokens = scanner.tokens
              /\ scanner'.current = CHOOSE e \in Closings : \A d \in Closings : e <= d
         ELSE /\ scanned'.tag = "Err"
              /\ scanned'.err.message = "Unclosed block comment."
              /\ scanner'.current <= Len(scanner.source)]_vars

\* The newline characters among the first n characters of the source.
Newlines(n) ==
    Cardinality({i \in 1..n : i <= Len(scanner.source) /\ scanner.source[i] = "\n"})

\* The line counter is 1 plus the newlines consumed, and so is the line of a
\* lexical error.
LineCounted ==
    /\ scanner.line = 1 + Newlines(scanner.current)
    /\ scanned.tag = "Err" => scanned.err.line = 1 + Newlines(scanner.current)

\* The token a turn adds, and the Eof token, has the line counted at the
\* place where it is added.
TokenLine ==
    Len(scanner'.tokens) > Len(scanner.tokens) =>
        scanner'.tokens[Len(scanner'.tokens)].line = 1 + Newlines(scanner'.current)

\* C25: at every point of a scan the line counter is 1 plus the number of
\* newline characters consumed so far, wherever they are: between tokens, at
\* the end of a `//` comment, in a string, in a block comment; so the line of
\* each token, of the Eof token and of each lexical error is 1 plus the
\* number of newlines before the place of the scanner when it was made.
C25_LineTracking == []LineCounted /\ [][TokenLine]_vars

\* The program has been run: a run of these programs prints, fails or both.
Done == out # <<>> \/ last # OkUnit

\* Parser::expression on the lexemes ws followed by `;`.
Parsed(ws) == expression(ParserNew(Tokens(ws \o <<";">>)))

\* The `=` token that follows the left side l of an assignment.
EqualAfter(l) == Tokens(l \o <<"=">>)[Len(l) + 1]

\* C26: when the expression parsed to the left of `=` is a Variable the
\* parser yields Assign(name, rhs); for any other left side (literal,
\* grouping, call, binary, unary) it yields a syntax error whose token is the
\* `=` token itself, whatever tokens the right side consists of.
C26_Assignment ==
    \A l \in Targets, r \in Values_right :
        input = Assigning(l, r) /\ Done =>
            LET a == Parsed(l \o <<"=">> \o r)
                left == Parsed(l)
                right == Parsed(r)
            IN  /\ left.ok /\ right.ok
                /\ IF left.value.node = "VarExpr"
                   THEN /\ a.ok
                        /\ a.value = AssignExpr(left.value.name, right.value)
                        /\ last.tag # "Err"
                   ELSE /\ ~a.ok
                        /\ a.err.token = EqualAfter(l)
                        /\ last = [tag |-> "Err", err |-> a.err]
                        /\ out = <<>>

\* The number of arguments of the call e.
ArgumentCount(e) == IF e.arguments.some THEN Len(e.arguments.args) ELSE 0

\* The declarations of f and g that a run of a counting program has defined.
DeclaredF == envs[globals].values["f"].func
DeclaredG == envs[globals].values["g"].func

\* C27: a function declaration with at most 255 parameters and a call with
\* at most 255 arguments parse; a declaration with 256 or more parameters,
\* or a call with 256 or more arguments, makes parse fail with a syntax
\* error, so no accepted declaration has more than 255 parameters and no
\* accepted call more than 255 arguments.
C27_CountLimits ==
    \A n \in Counts, m \in Counts :
        input = Counting(n, m) /\ (Ran \/ last # OkUnit) =>
            IF n <= MaxArgs /\ m <= MaxArgs
            THEN /\ last = OkUnit
                 /\ Len(DeclaredF.params) = n
                 /\ ArgumentCount(DeclaredG.stmts[1].expr) = m
            ELSE /\ last.tag = "Err"
                 /\ last.err.message # ""
                 /\ envs = InterpreterNew.envs

C27_Witness ==
    /\ input = Counting(MaxArgs, MaxArgs)
    /\ Ran
    /\ Len(DeclaredF.params) = MaxArgs
    /\ ArgumentCount(DeclaredG.stmts[1].expr) = MaxArgs

\* What the call f(v) prints as the operand of a print statement, by the
\* body k of f; and what the program Returning(k, c, top) prints.
ReturningCall(k, v) ==
    CASE k = 5 -> <<"nil">>
      [] k = 6 -> <<v, "body", v>>
      [] OTHER -> <<v>>
ReturningOut(k, c, top) ==
    (CASE c = 1 -> ReturningCall(k, "1") \o <<"post">>
       [] c = 2 -> ReturningCall(k, "1") \o <<"pre", "post">>
       [] c = 3 -> ReturningCall(k, "1") \o ReturningCall(k, "2") \o <<"post">>)
    \o (IF top THEN <<>> ELSE <<"callee">>)

\* Interpreter::evaluate of the call f(1) in the state after the run.
EvaluatedCall ==
    evaluate(Parsed(<<"f", "(", "1", ")">>).value,
             [envs |-> envs, environment |-> environment, out |-> <<>>,
              clock |-> <<7, 7>>], MaxFuel).r

\* C28: a return signal never crosses a call: the return raised in the body of
\* a user function (at its top, in its blocks, loops and if statements, or in
\* a function it calls) is consumed by the innermost call and is that call's
\* value; evaluating an expression completes with a value, never with a
\* return signal; a return in a callee ends no loop, block or body of the
\* caller.
C28_ReturnStaysInCall ==
    \A k \in 1..6, c \in 1..3, top \in BOOLEAN :
        input = Returning(k, c, top) /\ Done =>
            /\ last = OkUnit
            /\ out = ReturningOut(k, c, top)
            /\ EvaluatedCall = Ok(IF k = 5 THEN LNull ELSE LNumber(1))
            /\ Len(envs) = 1

C28_Witness ==
    /\ input = Returning(3, 3, FALSE)
    /\ out = <<"1", "2", "post", "callee">>
    /\ last = OkUnit

====
